---- MODULE Spec2Model ----
(***************************************************************************)
(* The chat stream relay of Health-track: POST /api/chat                   *)
(* (src/app/api/chat/route.ts) forwarding the event stream of the FastAPI  *)
(* server documented in src/README.md, with its word-by-word fallback.     *)
(*                                                                         *)
(* Text is a sequence of units.  A unit is a piece of text the transport   *)
(* never cuts: a letter, a space, the line feed, and a few multi-character *)
(* pieces.  "data: " is the two units "data" and ": ", "[DONE]" is the two *)
(* units "[" and "DONE]", so a read chunk can end inside either of them.   *)
(* "{" stands for the opening of the JSON object up to the opening quote   *)
(* of the value of content, "}" for the closing quote and brace; a word    *)
(* of the fallback message is one unit.                                    *)
(***************************************************************************)
EXTENDS Integers, Sequences, FiniteSets, TLC

\* ------------------------------------------------------------------ bounds

\* The largest number of scans the user makes.
MaxScans == 2

\* The largest number of messages of a history given to the producer.
MaxHistory == 2

\* The largest number of messages the user sends in one chat dialog.
MaxSends == 2

\* The largest number of handlers of closed dialogs that are still running.
MaxOrphans == 1

\* The largest number of media streams that are live at a time.
MaxStreams == 2

\* The length of the thinking text of the parent, in characters.
MaxText == 5

\* The number of doubles below 1 that Math.random() is let return.
MaxBelowOne == 3

\* The longest response of the producer, in words.
MaxWords == 2

\* The largest number of read chunks the transport divides one body into.
MaxChunks == 3

\* ---------------------------------------------------------- text helpers

NL == "\n"
SP == " "

Last(s) == s[Len(s)]

RECURSIVE Concat(_)
\* The concatenation of a sequence of texts.
Concat(ss) == IF ss = <<>> THEN <<>> ELSE Head(ss) \o Concat(Tail(ss))

\* String.prototype.startsWith
StartsWith(s, p) == Len(s) >= Len(p) /\ SubSeq(s, 1, Len(p)) = p

\* String.prototype.split(sep): the pieces of s between the occurrences of
\* sep; empty pieces are kept.
Split(s, sep) ==
    LET at == SelectSeq([i \in 1..Len(s) |-> i], LAMBDA i : s[i] = sep)
        n == Len(at)
    IN  [k \in 1..(n + 1) |->
            SubSeq(s, IF k = 1 THEN 1 ELSE at[k - 1] + 1,
                      IF k = n + 1 THEN Len(s) ELSE at[k] - 1)]

NonEmpty(s) == s # <<>>

\* Python's str.split(): split on white space, empty pieces are dropped.
SplitWhitespace(s) == SelectSeq(Split(s, SP), NonEmpty)

\* The literal "data: " of both the server and the relay.
DataPrefix == <<"data", ": ">>

\* The literal "[DONE]".
Sentinel == <<"[", "DONE]">>

\* The line "data: [DONE]\n".
DoneLine == DataPrefix \o Sentinel \o <<NL>>

\* The units with a meaning in JSON; the letters and the space have none.
Structural == {"{", "}", "[", "DONE]", "data", ": ", NL}

\* JSON.stringify({ content: chunk }) and json.dumps({"content": chunk}).
JSONStringify(chunk) == <<"{">> \o chunk \o <<"}">>

\* JSON.parse(data) followed by the read of parsed.content: ok is FALSE where
\* JSON.parse throws.
JSONParse(data) ==
    IF /\ Len(data) >= 2
       /\ Head(data) = "{"
       /\ Last(data) = "}"
       /\ \A i \in 2..(Len(data) - 1) : data[i] \notin Structural
    THEN [ok |-> TRUE, content |-> SubSeq(data, 2, Len(data) - 1)]
    ELSE [ok |-> FALSE, content |-> <<>>]

\* ------------------------------------------------- the response producer

Letters == <<"a", "b", "c", "d", "e", "f">>

RECURSIVE JoinWords(_)
\* The words joined by single spaces.
JoinWords(ws) ==
    IF ws = <<>> THEN <<>>
    ELSE IF Len(ws) = 1 THEN Head(ws)
    ELSE Head(ws) \o <<SP>> \o JoinWords(Tail(ws))

\* The response text of n words: "a", "a b", "a b c", ...
ResponseText(n) == JoinWords([i \in 1..n |-> <<Letters[i]>>])

\* The response texts the producer may select.
ResponseTexts == {ResponseText(n) : n \in 1..MaxWords}

\* generate_chat_response, the streaming part: the fragments it yields, each
\* word followed by a space except the last.
Fragments(response) ==
    LET words == SplitWhitespace(response)
    IN  [i \in 1..Len(words) |->
            words[i] \o (IF i < Len(words) THEN <<SP>> ELSE <<>>)]

\* generate_chat_response: what it yields for each fragment.
Yields(response) ==
    LET fs == Fragments(response)
    IN  [i \in 1..Len(fs) |-> JSONStringify(fs[i]) \o <<NL>>]

\* generate(): the body of the server's streaming response, in yield order.
GenerateYields(response) ==
    LET ys == Yields(response)
    IN  <<DataPrefix>>
        \o [i \in 1..Len(ys) |-> DataPrefix \o ys[i]]
        \o <<DoneLine>>

\* The bytes of the body.
Body(response) == Concat(GenerateYields(response))

\* ------------------------------------------------------------ the relay

\* fallbackResponse
FallbackResponse == <<
    "I'm", " ", "a", " ", "nutrition", " ", "AI", " ", "assistant.", " ",
    "I", " ", "can", " ", "help", " ", "you", " ", "understand", " ", "the",
    " ", "nutritional", " ", "value", " ", "of", " ", "your", " ", "food,",
    " ", "suggest", " ", "healthy", " ", "alternatives,", " ", "and", " ",
    "answer", " ", "questions", " ", "about", " ", "diet", " ", "and", " ",
    "wellness.", " ", "What", " ", "would", " ", "you", " ", "like", " ",
    "to", " ", "know?" >>

\* const words = fallbackResponse.split(" ")
FallbackWords == Split(FallbackResponse, SP)

\* The requests the host runtime serves.
AllRequests == {1, 2}

VARIABLES
    pc,        \* per request: the position of its handler
    up,        \* per request: the state of the upstream generation collaborator
    response,  \* per request: the text the producer selected
    cuts,      \* per request: the end positions of the chunks read so far
    sink,      \* per request: the state of the ReadableStream given to the client
    out,       \* per request: the lines enqueued on the sink
    index      \* per closure slot: the counter of sendChunk

relayVars == <<pc, up, response, cuts, sink, out, index>>

\* The chat dialog, src/components/llm-chat.tsx.
VARIABLES
    messages,          \* the conversation: records of role and content
    input,             \* the text of the input field
    isLoading,
    isStreaming,
    streamingMessage,
    cpc,               \* the position of sendMessage / handleAPIResponse
    acc,               \* accumulatedContent of the handleAPIResponse running
    sent,              \* the body of the request to /api/chat, as captured
    ccuts,             \* the end positions of the chunks the client has read
    orphans            \* the handlers of dialogs closed during an exchange

clientVars == <<messages, input, isLoading, isStreaming, streamingMessage,
                cpc, acc, sent, ccuts, orphans>>

\* The main page, src/app/page.tsx.
VARIABLES
    showLLMChat,
    analysisResult,    \* 0 for null, else the id of the entry its scan added
    isScanning,
    spc,               \* the position of handleScan
    capturedImage,     \* 0 for null, else the number of the image
    uploadedImage,     \* 0 for null, else the number of the image
    showCamera,
    scanHistory,       \* the ids of the entries, newest first
    showGallery,
    scanArgs           \* what the handleScan that is running was created
                       \* with: capturedImage, uploadedImage, scanHistory

pageVars == <<showLLMChat, analysisResult, isScanning, spc, capturedImage,
              uploadedImage, showCamera, scanHistory, showGallery, scanArgs>>

\* The camera dialog, CameraCapture of src/components/camera-capture.tsx.
VARIABLES
    camPc,             \* startCamera: "none", "asking" or "settled"
    camStream,         \* stream: 0 for null, else 1
    camImage,          \* capturedImage of the dialog: 0 for null
    camLoading,        \* isLoading of the dialog
    camError,          \* error of the dialog is not null
    liveStreams,       \* the media streams obtained and not stopped
    lateAsk            \* a getUserMedia of a closed dialog is pending

cameraVars == <<camPc, camStream, camImage, camLoading, camError, liveStreams,
                lateAsk>>

\* The gallery dialog, GalleryUpload of src/components/camera-capture.tsx.
VARIABLES
    selectedImage,     \* 0 for null, else the data of a file
    reading,           \* the files whose FileReader has not called onload
    latest             \* the data of the image file selected last, 0 after
                       \* resetSelection and at the start

galleryVars == <<selectedImage, reading, latest>>

\* The response producer, generate_chat_response of src/README.md.
VARIABLES
    pin,               \* the arguments: messages and context
    prun,              \* the number of the invocation: 1 or 2, same arguments
    pst,               \* "idle", "running", "finished" or "raised"
    ptext,             \* the response text selected
    pi,                \* the number of fragments yielded
    pfirst             \* the fragments the first invocation yielded

producerVars == <<pin, prun, pst, ptext, pi, pfirst>>

\* The analysis route, src/app/api/analyze-food/route.ts.
VARIABLES
    apc,               \* "idle", "fetching" or "answered"
    aup,               \* what the route sent upstream and what came back
    aresp              \* the response of the route

analyzeVars == <<apc, aup, aresp>>

\* The thinking box, src/components/thinking-box.tsx, and the parent that
\* shows it: handleScan of the page or sendMessage of the chat dialog.
VARIABLES
    tpc,               \* the parent: "idle", "typing" or "waiting"
    showThinking,      \* of the parent: the box is mounted
    thinkingContent,   \* of the parent: the length of the text set so far
    currentIndex,      \* of the box
    isComplete,        \* of the box
    isExpanded,        \* of the box
    completing,        \* the timeouts of the box that will call onComplete
    calls              \* the calls of onComplete since the box was mounted

thinkingVars == <<tpc, showThinking, thinkingContent, currentIndex,
                  isComplete, isExpanded, completing, calls>>

dialogVars == <<cameraVars, galleryVars, thinkingVars>>

vars == <<relayVars, clientVars, pageVars, producerVars, analyzeVars,
          dialogVars>>

notRelay == <<clientVars, pageVars, producerVars, analyzeVars, dialogVars>>
notClient == <<relayVars, producerVars, analyzeVars, dialogVars>>
notProducer == <<relayVars, clientVars, pageVars, analyzeVars, dialogVars>>
notAnalyze == <<relayVars, clientVars, pageVars, producerVars, dialogVars>>
notPage == <<relayVars, clientVars, producerVars, analyzeVars, thinkingVars>>
notThinking == <<relayVars, clientVars, pageVars, producerVars, analyzeVars,
                 cameraVars, galleryVars>>

\* No handler has been left behind by a closed dialog.
NoOrphans == [thinking |-> 0, fetching |-> 0]

\* No handleScan is running.
NoScan == [capturedImage |-> 0, uploadedImage |-> 0, scanHistory |-> <<>>]

\* No request to /api/chat has been made.
NoRequest == [messages |-> <<>>, analysisResult |-> 0]

\* The ids of the three entries scanHistory starts with.
InitialHistory == <<1, 2, 3>>

\* The producer has not been given arguments.
NoArguments == [messages |-> <<>>, context |-> <<>>]

\* The members of a result the route reads and writes, route.ts:29-38.
Members ==
    {"success", "food_name", "health_score", "calories", "analysis",
     "nutritional_info", "health_benefits", "recommendations"}

\* JSON values: a number, a text, true, an object or array (its contents
\* named by a text), null, and the undefined a missing member reads as.
Undefined == [type |-> "undefined", num |-> 0, text |-> <<>>]
JsonNull == [type |-> "null", num |-> 0, text |-> <<>>]
JsonTrue == [type |-> "boolean", num |-> 1, text |-> <<>>]
Num(n) == [type |-> "number", num |-> n, text |-> <<>>]
Str(t) == [type |-> "string", num |-> 0, text |-> t]
Obj(t) == [type |-> "object", num |-> 0, text |-> t]

\* An object without members.
NoMembers == [m \in Members |-> Undefined]

\* The route has not called the upstream.
NoUpstream ==
    [image_data |-> 0, prompt |-> <<>>, outcome |-> "none", status |-> 0,
     result |-> NoMembers]

\* The route has not answered.
NoResponse == [status |-> 0, body |-> NoMembers]

\* The number of body units the reader has returned.
Pos(r) == IF cuts[r] = <<>> THEN 0 ELSE Last(cuts[r])

\* A controller.enqueue that never throws.
EnqueueThrowsNever(s) == FALSE

\* controller.enqueue throws unless the stream is readable.
EnqueueThrows(s) == s # "readable"

\* A catch that logs the error and does not signal it.
ControllerErrorSwallowed(s) == s

\* controller.error(error): errors a readable stream, and does nothing to a
\* stream that is closed, errored or cancelled.
ControllerError(s) == IF s = "readable" THEN "errored" ELSE s

\* A sink that delivers the newest line first.
EnqueueFirst(lines, line) == <<line>> \o lines

\* controller.enqueue(encoder.encode(line)) on a readable stream.
Enqueue(lines, line) == Append(lines, line)

\* A relay that holds the last line of a chunk back until the next read.
EnqueueAllButLast(lines, new) ==
    IF new = <<>> THEN lines ELSE lines \o SubSeq(new, 1, Len(new) - 1)

RECURSIVE EnqueueAll(_, _)
\* The enqueues of the for loop over the lines of a chunk, in order.
EnqueueAll(lines, new) ==
    IF new = <<>> THEN lines
    ELSE EnqueueAll(Enqueue(lines, Head(new)), Tail(new))

\* line.startsWith("data: ")
IsDataLine(line) == StartsWith(line, DataPrefix)

\* A relay that gives the chunk up at the first line it cannot forward.
ForwardedLinesUntilSkipped(chunk) ==
    LET ls == Split(chunk, NL)
        bad == {i \in 1..Len(ls) : ~IsDataLine(ls[i])}
        n == IF bad = {} THEN Len(ls)
             ELSE (CHOOSE i \in bad : \A j \in bad : i <= j) - 1
    IN  [i \in 1..n |-> ls[i] \o <<NL>>]

\* The lines the relay forwards of one chunk: for (const line of lines)
\* if (line.startsWith("data: ")) ... line + "\n"
ForwardedLines(chunk) ==
    LET kept == SelectSeq(Split(chunk, NL), IsDataLine)
    IN  [i \in 1..Len(kept) |-> kept[i] \o <<NL>>]

\* A counter declared at module level, shared by all requests.
IndexSlotShared(r) == 1

\* The closure the counter of a request's sendChunk lives in: one per request.
IndexSlot(r) == r

\* A counter advanced twice per word.
NextIndexSkip(i) == i + 2

\* index++
NextIndex(i) == i + 1

\* The line sendChunk writes for words[i].
FallbackLine(i) == DataPrefix \o JSONStringify(FallbackWords[i] \o <<SP>>) \o <<NL>>

RelayInit ==
    /\ pc = [r \in AllRequests |-> "idle"]
    /\ up = [r \in AllRequests |-> "none"]
    /\ response = [r \in AllRequests |-> <<>>]
    /\ cuts = [r \in AllRequests |-> <<>>]
    /\ sink = [r \in AllRequests |-> "none"]
    /\ out = [r \in AllRequests |-> <<>>]
    /\ index = [r \in AllRequests |-> 0]

\* The chat dialog before it is mounted: the useState initial values.
ClientInit ==
    /\ messages = <<>>
    /\ input = <<>>
    /\ isLoading = FALSE
    /\ isStreaming = FALSE
    /\ streamingMessage = <<>>
    /\ cpc = "idle"
    /\ acc = <<>>
    /\ sent = NoRequest
    /\ ccuts = <<>>
    /\ orphans = NoOrphans

\* The useState initial values of the page.
PageInit ==
    /\ showLLMChat = FALSE
    /\ analysisResult = 0
    /\ isScanning = FALSE
    /\ spc = "idle"
    /\ capturedImage = 0
    /\ uploadedImage = 0
    /\ showCamera = FALSE
    /\ scanHistory = InitialHistory
    /\ showGallery = FALSE
    /\ scanArgs = NoScan

\* The useState initial values of the camera dialog; no stream is live.
CameraInit ==
    /\ camPc = "none"
    /\ camStream = 0
    /\ camImage = 0
    /\ camLoading = TRUE
    /\ camError = FALSE
    /\ liveStreams = 0
    /\ lateAsk = FALSE

\* The useState initial values of the gallery dialog.
GalleryInit ==
    /\ selectedImage = 0
    /\ reading = {}
    /\ latest = 0

\* The producer before it is invoked.
ProducerInit ==
    /\ pin = NoArguments
    /\ prun = 0
    /\ pst = "idle"
    /\ ptext = <<>>
    /\ pi = 0
    /\ pfirst = <<>>

\* The analysis route before a request.
AnalyzeInit ==
    /\ apc = "idle"
    /\ aup = NoUpstream
    /\ aresp = NoResponse

\* No thinking box is shown.
ThinkingInit ==
    /\ tpc = "idle"
    /\ showThinking = FALSE
    /\ thinkingContent = 0
    /\ currentIndex = 0
    /\ isComplete = FALSE
    /\ isExpanded = TRUE
    /\ completing = 0
    /\ calls = 0

Init ==
    /\ RelayInit /\ ClientInit /\ PageInit /\ ProducerInit /\ AnalyzeInit
    /\ CameraInit /\ GalleryInit /\ ThinkingInit

\* sendChunk, called with the counter at i (0-based).
SendChunk(r, i) ==
    IF EnqueueThrows(sink[r])
    THEN \* the exception leaves sendChunk: no index++, no further timer
         /\ pc' = [pc EXCEPT ![r] = "stopped"]
         /\ index' = [index EXCEPT ![IndexSlot(r)] = i]
         /\ UNCHANGED <<sink, out>>
    ELSE IF i < Len(FallbackWords)
    THEN /\ out' = [out EXCEPT ![r] = Enqueue(out[r], FallbackLine(i + 1))]
         /\ index' = [index EXCEPT ![IndexSlot(r)] = NextIndex(i)]
         /\ pc' = [pc EXCEPT ![r] = "waiting"]
         /\ UNCHANGED sink
    ELSE /\ out' = [out EXCEPT ![r] = Enqueue(out[r], DoneLine)]
         /\ sink' = [sink EXCEPT ![r] = "closed"]
         /\ pc' = [pc EXCEPT ![r] = "done"]
         /\ index' = [index EXCEPT ![IndexSlot(r)] = i]

\* POST, the upstream answering with a success status: the stream is built
\* and start() runs up to its first await.
PostSuccess(r, resp, body) ==
    /\ pc[r] = "idle"
    /\ response' = [response EXCEPT ![r] = resp]
    /\ IF body
       THEN /\ up' = [up EXCEPT ![r] = "open"]
            /\ sink' = [sink EXCEPT ![r] = "readable"]
            /\ pc' = [pc EXCEPT ![r] = "reading"]
       ELSE \* response.body?.getReader() is undefined: "No reader available"
            /\ up' = [up EXCEPT ![r] = "nobody"]
            /\ sink' = [sink EXCEPT ![r] = ControllerError("readable")]
            /\ pc' = [pc EXCEPT ![r] = "stopped"]
    /\ UNCHANGED <<cuts, out, index>>
    /\ UNCHANGED notRelay

\* POST, request.json() or fetch throwing, or the upstream answering with a
\* non-success status: the catch builds the fallback stream, whose start()
\* sets index to 0 and calls sendChunk once.
PostFallback(r, why) ==
    /\ pc[r] = "idle"
    /\ up' = [up EXCEPT ![r] = why]
    /\ sink[r] = "none"
    /\ LET s == [sink EXCEPT ![r] = "readable"]
       IN  /\ out' = [out EXCEPT ![r] = Enqueue(out[r], FallbackLine(1))]
           /\ index' = [index EXCEPT ![IndexSlot(r)] = NextIndex(0)]
           /\ pc' = [pc EXCEPT ![r] = "waiting"]
           /\ sink' = s
    /\ UNCHANGED <<response, cuts>>
    /\ UNCHANGED notRelay

\* The timer set by sendChunk fires.
Timer(r) ==
    /\ pc[r] = "waiting"
    /\ SendChunk(r, index[IndexSlot(r)])
    /\ UNCHANGED <<up, response, cuts>>
    /\ UNCHANGED notRelay

\* reader.read() returns the next k units of the body, and the relay
\* forwards the data lines of the chunk; the transport divides the body into
\* at most limit chunks.
Read(r, k, limit) ==
    /\ pc[r] = "reading"
    /\ up[r] = "open"
    /\ k \in 1..(Len(Body(response[r])) - Pos(r))
    /\ Len(cuts[r]) + 1 < limit \/ Pos(r) + k = Len(Body(response[r]))
    /\ cuts' = [cuts EXCEPT ![r] = Append(cuts[r], Pos(r) + k)]
    /\ LET chunk == SubSeq(Body(response[r]), Pos(r) + 1, Pos(r) + k)
           lines == ForwardedLines(chunk)
       IN  IF lines # <<>> /\ EnqueueThrows(sink[r])
           THEN \* the catch of start(): controller.error(error)
                /\ sink' = [sink EXCEPT ![r] = ControllerError(sink[r])]
                /\ pc' = [pc EXCEPT ![r] = "stopped"]
                /\ UNCHANGED out
           ELSE /\ out' = [out EXCEPT ![r] = EnqueueAll(out[r], lines)]
                /\ UNCHANGED <<sink, pc>>
    /\ UNCHANGED <<up, response, index>>
    /\ UNCHANGED notRelay

\* reader.read() returns a chunk of any length the transport may cut.
ReadChunk(r, limit) == \E k \in 1..Len(Body(response[r])) : Read(r, k, limit)

\* reader.read() returns done: the relay writes the sentinel and closes.
ReadDone(r) ==
    /\ pc[r] = "reading"
    /\ up[r] = "open"
    /\ Pos(r) = Len(Body(response[r]))
    /\ IF EnqueueThrows(sink[r])
       THEN /\ sink' = [sink EXCEPT ![r] = ControllerError(sink[r])]
            /\ pc' = [pc EXCEPT ![r] = "stopped"]
            /\ UNCHANGED out
       ELSE /\ out' = [out EXCEPT ![r] = Enqueue(out[r], DoneLine)]
            /\ sink' = [sink EXCEPT ![r] = "closed"]
            /\ pc' = [pc EXCEPT ![r] = "done"]
    /\ UNCHANGED <<up, response, cuts, index>>
    /\ UNCHANGED notRelay

\* reader.read() rejects: the catch of start() signals the error on the sink.
ReadFail(r) ==
    /\ pc[r] = "reading"
    /\ up[r] = "open"
    /\ up' = [up EXCEPT ![r] = "failed"]
    /\ sink' = [sink EXCEPT ![r] = ControllerError(sink[r])]
    /\ pc' = [pc EXCEPT ![r] = "stopped"]
    /\ UNCHANGED <<response, cuts, out, index>>
    /\ UNCHANGED notRelay

\* The client disconnects: the runtime cancels the stream.
Cancel(r) ==
    /\ sink[r] = "readable"
    /\ sink' = [sink EXCEPT ![r] = "cancelled"]
    /\ UNCHANGED <<pc, up, response, cuts, out, index>>
    /\ UNCHANGED notRelay

FallbackCauses == {"badjson", "unreachable", "status"}

Next ==
    \/ \E resp \in ResponseTexts, body \in BOOLEAN : PostSuccess(1, resp, body)
    \/ \E why \in FallbackCauses : PostFallback(1, why)
    \/ Timer(1)
    \/ ReadChunk(1, MaxChunks)
    \/ ReadDone(1)
    \/ ReadFail(1)
    \/ Cancel(1)

Spec == Init /\ [][Next]_vars

\* Two requests served concurrently, each with its own upstream and sink.
ConcResponse(r) == <<Letters[r]>>

\* The chunks the transport divides a body into when two requests are served.
ConcChunks == MaxChunks - 1

NextConc ==
    \E r \in AllRequests :
        \/ PostSuccess(r, ConcResponse(r), TRUE)
        \/ PostFallback(r, "unreachable")
        \/ Timer(r)
        \/ ReadChunk(r, ConcChunks)
        \/ ReadDone(r)

SpecConc == Init /\ [][NextConc]_vars

\* ------------------------------------------------- vocabulary of the claims

OnSuccessPath(r) == up[r] \in {"open", "failed"}

OnFallbackPath(r) == up[r] \in FallbackCauses

\* The relay has forwarded the whole upstream stream and closed the sink.
Forwarded(r) == up[r] = "open" /\ sink[r] = "closed"

SentinelCount(lines) == Cardinality({i \in 1..Len(lines) : lines[i] = DoneLine})

\* What follows "data: " on a line, without the line feed.
Payload(line) ==
    SubSeq(line, Len(DataPrefix) + 1,
           IF Last(line) = NL THEN Len(line) - 1 ELSE Len(line))

\* A line of the wire format that carries a fragment.
IsFragmentLine(line) ==
    /\ IsDataLine(line)
    /\ Last(line) = NL
    /\ JSONParse(Payload(line)).ok

\* The content value of a line, empty for a line that has none.
ContentOf(line) ==
    IF IsFragmentLine(line) THEN JSONParse(Payload(line)).content ELSE <<>>

Contents(lines) == Concat([i \in 1..Len(lines) |-> ContentOf(lines[i])])

IsLetter(u) == \E i \in 1..Len(Letters) : Letters[i] = u

\* The words the lines carry, whole or in part of a fragment, in line order.
CarriedWords(lines) == SelectSeq(Concat(lines), IsLetter)

RECURSIVE IsSubsequence(_, _)
\* s is t with some elements left out, the order kept.
IsSubsequence(s, t) ==
    IF s = <<>> THEN TRUE
    ELSE IF t = <<>> THEN FALSE
    ELSE IF Head(s) = Head(t) THEN IsSubsequence(Tail(s), Tail(t))
    ELSE IsSubsequence(s, Tail(t))

\* t occurs in s as a run of consecutive units.
Contains(s, t) ==
    \E i \in 0..(Len(s) - Len(t)) : SubSeq(s, i + 1, i + Len(t)) = t

\* The fragments of the response that a line holds whole.
WholeFragmentsIn(line, resp) ==
    {j \in 1..Len(Fragments(resp)) :
        Contains(line, JSONStringify(Fragments(resp)[j]))}

NonSentinel(lines) == SelectSeq(lines, LAMBDA l : l # DoneLine)

\* The words of the fallback message.
MessageWords == SelectSeq(FallbackResponse, LAMBDA u : u # SP)

\* The stream the fallback is to deliver: one framed line per word of the
\* message, then the sentinel.
FallbackStream ==
    [i \in 1..(Len(MessageWords) + 1) |->
        IF i <= Len(MessageWords)
        THEN <<"data", ": ", "{", MessageWords[i], SP, "}", NL>>
        ELSE <<"data", ": ", "[", "DONE]", NL>>]

\* ------------------------------------------------------------------ claims

\* C1: the lines written hold exactly one "data: [DONE]" line, and it is the
\* last line written before the sink is closed, on the success path and on
\* the fallback path.  (Stated as claimed; the success path violates it.)
C1_OneSentinelLast ==
    \A r \in AllRequests :
        sink[r] = "closed" =>
            SentinelCount(out[r]) = 1 /\ Last(out[r]) = DoneLine

\* C2: on the success path the content values of the emitted data lines,
\* concatenated in emission order, are the producer's full response text.
\* (Stated as claimed; the code violates it.)
C2_ContentsAreResponse ==
    \A r \in AllRequests :
        Forwarded(r) => Contents(out[r]) = response[r]

\* C3: the relay writes the fragments in the order the producer yields
\* them: the words carried by the lines written, in the order of the lines,
\* are the producer's words with some left out and none moved.
C3_OrderPreserved ==
    \A r \in AllRequests :
        OnSuccessPath(r) =>
            IsSubsequence(CarriedWords(out[r]),
                          CarriedWords(Fragments(response[r])))

\* C3 witness: a two-fragment response relayed to the end, both fragments
\* written.
C3_Witness ==
    /\ Forwarded(1)
    /\ response[1] = ResponseText(2)
    /\ CarriedWords(out[1]) = <<"a", "b">>

\* C4: the number of non-sentinel lines written equals the number of
\* fragments yielded, and every such line holds exactly one whole fragment.
\* (Stated as claimed; the code violates it.)
C4_OneLinePerFragment ==
    \A r \in AllRequests :
        Forwarded(r) =>
            /\ Len(NonSentinel(out[r])) = Len(Fragments(response[r]))
            /\ \A i \in 1..Len(out[r]) :
                  out[r][i] # DoneLine =>
                      Cardinality(WholeFragmentsIn(out[r][i], response[r])) = 1

\* C5: when fetch throws or the upstream answers with a non-success status,
\* the relay returns a stream, never an error: the lines written are, in
\* order, the framed words of the fallback message and then the sentinel,
\* and the sink is closed exactly when the sentinel has been written.
C5_FallbackStream ==
    \A r \in AllRequests :
        OnFallbackPath(r) =>
            /\ sink[r] \in {"readable", "closed", "cancelled"}
            /\ Len(out[r]) <= Len(FallbackStream)
            /\ out[r] = SubSeq(FallbackStream, 1, Len(out[r]))
            /\ sink[r] = "closed" <=> out[r] = FallbackStream
            /\ pc[r] = "done" => sink[r] = "closed"
            /\ pc[r] = "stopped" => sink[r] = "cancelled"

\* C5 witness: the upstream unreachable, the whole fallback stream written
\* and the sink closed.
C5_Witness ==
    /\ up[1] = "unreachable"
    /\ sink[1] = "closed"
    /\ Len(out[1]) = Len(MessageWords) + 1

C7_FailureEndsStream ==
    /\ [](\A r \in AllRequests :
            pc[r] = "stopped" => sink[r] \in {"errored", "cancelled"})
    /\ [][\A r \in AllRequests :
            /\ up[r] = "failed" => out'[r] = out[r] /\ sink'[r] = sink[r]
            /\ (up[r] # "failed" /\ up'[r] = "failed") =>
                  /\ out'[r] = out[r]
                  /\ pc'[r] = "stopped"
                  /\ sink[r] = "readable" => sink'[r] = "errored"]_vars

\* C7 witness: the read failed with two lines written and body left unread.
C7_Witness ==
    /\ up[1] = "failed"
    /\ pc[1] = "stopped"
    /\ sink[1] = "errored"
    /\ Len(out[1]) = 2
    /\ Pos(1) < Len(Body(response[1]))

RECURSIVE AloneOutput(_, _, _)
\* What the relay, serving one request alone, writes for the body read in
\* the chunks ending at the positions cs (from position from on).
AloneOutput(body, cs, from) ==
    IF cs = <<>> THEN <<>>
    ELSE ForwardedLines(SubSeq(body, from + 1, Head(cs)))
         \o AloneOutput(body, Tail(cs), Head(cs))

\* C8: of two requests served concurrently, each stream is the stream the
\* request gets when served alone: the fallback stream up to the line
\* reached, or the lines of its own upstream chunks and then the sentinel.
C8_IndependentStreams ==
    \A r \in AllRequests :
        /\ OnFallbackPath(r) =>
              /\ Len(out[r]) <= Len(FallbackStream)
              /\ out[r] = SubSeq(FallbackStream, 1, Len(out[r]))
              /\ pc[r] = "done" <=> out[r] = FallbackStream
        /\ OnSuccessPath(r) =>
              out[r] = AloneOutput(Body(response[r]), cuts[r], 0)
                       \o (IF pc[r] = "done" THEN <<DoneLine>> ELSE <<>>)

\* C8 witness: both requests in the middle of their streams, one on each
\* path, each with lines written.
C8_Witness ==
    /\ pc[1] = "waiting" /\ Len(out[1]) >= 3
    /\ pc[2] = "reading" /\ Len(out[2]) >= 1 /\ Len(cuts[2]) >= 2

\* C9: once the client has cancelled the sink, the relay writes no line and
\* advances no counter, and its first attempt to write (a timer tick, a
\* chunk with a data line, the end of the body) ends its loop.
C9_StopsAfterCancel ==
    [][\A r \in AllRequests :
        sink[r] = "cancelled" =>
            /\ out'[r] = out[r]
            /\ index'[r] = index[r]
            /\ sink'[r] = "cancelled"
            /\ Timer(r) => pc'[r] = "stopped"
            /\ ReadDone(r) => pc'[r] = "stopped"
            /\ \A k \in 1..Len(Body(response[r])) :
                  (Read(r, k, MaxChunks) /\ ForwardedLines(
                      SubSeq(Body(response[r]), Pos(r) + 1, Pos(r) + k)) # <<>>)
                  => pc'[r] = "stopped"]_vars

\* C9 witness: the fallback loop stopped by a cancellation in mid-message.
C9_Witness ==
    /\ OnFallbackPath(1)
    /\ sink[1] = "cancelled"
    /\ pc[1] = "stopped"
    /\ index[1] < Len(FallbackWords)

\* C10: every line written other than the sentinel line is "data: "
\* followed by one JSON object with a string field content.  (Stated as
\* claimed; the success path violates it.)
C10_LinesWellFormed ==
    \A r \in AllRequests :
        \A i \in 1..Len(out[r]) :
            out[r][i] = DoneLine \/ IsFragmentLine(out[r][i])

\* ---------------------------------------------------------------- C20

\* The chunk a read step of request r returns.
ChunkRead(r) == SubSeq(Body(response[r]), Pos(r) + 1, Last(cuts'[r]))

\* A step of request r is a timer tick of the fallback path, or the call of
\* sendChunk by start().
IsTick(r) ==
    \/ pc[r] = "idle" /\ pc'[r] = "waiting"
    \/ pc[r] = "waiting" /\ (pc'[r] # pc[r] \/ index' # index)

\* C20: while the sink is open, a read step of the relay writes every data
\* line of the chunk it returns to the sink within the step, so before the
\* next read, and a tick of the fallback path writes exactly one line; no
\* other step writes.
C20_WrittenBeforeNextRead ==
    [][ /\ (cuts'[1] # cuts[1] /\ sink[1] = "readable")
            => out'[1] = out[1] \o ForwardedLines(ChunkRead(1))
        /\ (IsTick(1) /\ sink[1] \in {"none", "readable"})
            => Len(out'[1]) = Len(out[1]) + 1
        /\ (out'[1] # out[1])
            => \/ cuts'[1] # cuts[1]
               \/ IsTick(1)
               \/ pc[1] = "reading" /\ pc'[1] = "done" ]_vars

\* A read has returned a chunk of two or more lines, all of them are on the
\* sink, and the body has more to read.
C20_Witness ==
    /\ pc[1] = "reading"
    /\ Len(cuts[1]) = 1
    /\ Pos(1) < Len(Body(response[1]))
    /\ Len(out[1]) >= 2
    /\ out[1] = ForwardedLines(SubSeq(Body(response[1]), 1, Pos(1)))

\* ======================================================= the chat dialog
\* src/components/llm-chat.tsx, mounted by src/app/page.tsx while showLLMChat.

\* The names food_names holds; the result whose scan added entry n names
\* FoodNames[n].
FoodNames == <<
    <<"Apple">>, <<"Banana">>, <<"Salad">>, <<"Sandwich">>, <<"Pizza">>,
    <<"Pasta">>, <<"Rice", SP, "Bowl">>, <<"Smoothie">> >>

\* The content of the message the effect on analysisResult builds.
InitialContent(ar) == <<"I've analyzed your food image!", SP>> \o FoodNames[ar]

\* initialMessage
InitialMessage(ar) == [role |-> "assistant", content |-> InitialContent(ar)]

\* The content of errorMessage.
ApologyContent == <<"I'm sorry, I'm having trouble responding right now.">>

\* The texts the user types.
UserTexts == {<<"hello">>}

\* A white space unit.
IsSpace(u) == u \in {SP, NL}

RECURSIVE TrimStart(_)
TrimStart(s) ==
    IF s # <<>> /\ IsSpace(Head(s)) THEN TrimStart(Tail(s)) ELSE s

RECURSIVE TrimEnd(_)
TrimEnd(s) ==
    IF s # <<>> /\ IsSpace(Last(s)) THEN TrimEnd(SubSeq(s, 1, Len(s) - 1)) ELSE s

\* String.prototype.trim
Trim(s) == TrimEnd(TrimStart(s))

\* The stream the relay has answered the request of the dialog with.
Stream == Concat(out[1])

\* The number of units of Stream the reader of the dialog has returned.
CPos == IF ccuts = <<>> THEN 0 ELSE Last(ccuts)

\* line.slice(6)
Slice6(line) == SubSeq(line, Len(DataPrefix) + 1, Len(line))

\* data === "[DONE]"
IsSentinel(data) == data = Sentinel

\* accumulatedContent += parsed.content
Accumulate(a, content) == a \o content

\* [...prev, assistantMessage]
AppendAssistant(ms, content) ==
    Append(ms, [role |-> "assistant", content |-> content])

\* The state of handleAPIResponse and of the dialog the for loop works on.
LoopState ==
    [acc |-> acc, messages |-> messages, streamingMessage |-> streamingMessage,
     isStreaming |-> isStreaming]

RECURSIVE ProcessLines(_, _)
\* for (const line of lines) of handleAPIResponse: the sentinel appends the
\* assistant message and breaks out of the for loop; a payload that parses
\* and has a non-empty content is accumulated; anything else is passed over.
ProcessLines(lines, st) ==
    IF lines = <<>> THEN st
    ELSE IF ~IsDataLine(Head(lines)) THEN ProcessLines(Tail(lines), st)
    ELSE LET data == Slice6(Head(lines))
             parsed == JSONParse(data)
         IN  IF IsSentinel(data)
             THEN [st EXCEPT !.isStreaming = FALSE,
                             !.messages = AppendAssistant(@, st.acc),
                             !.streamingMessage = <<>>]
             ELSE IF parsed.ok /\ parsed.content # <<>>
             THEN ProcessLines(Tail(lines),
                      [st EXCEPT !.acc = Accumulate(@, parsed.content),
                                 !.streamingMessage =
                                     Accumulate(st.acc, parsed.content)])
             ELSE ProcessLines(Tail(lines), st)

\* The number of messages of the user in the conversation.
UserCount(ms) == Len(SelectSeq(ms, LAMBDA m : m.role = "user"))

\* A dialog, the camera or the chat, covers the page.
Covered == showCamera \/ showGallery \/ showLLMChat

\* onChange of the input field, which is disabled while isLoading.
SetInput(t) ==
    /\ showLLMChat
    /\ ~isLoading
    /\ input # t
    /\ input' = t
    /\ UNCHANGED <<messages, isLoading, isStreaming, streamingMessage, cpc,
                   acc, sent, ccuts, orphans>>
    /\ UNCHANGED <<pageVars, notClient>>

\* sendMessage up to its first await, for an input that is not blank and no
\* exchange in progress (otherwise it returns at once); the dialog has made
\* fewer than limit exchanges.  The closure holds the messages and the
\* analysisResult of the render the handler belongs to.
SendMessage(limit) ==
    /\ showLLMChat
    /\ Trim(input) # <<>>
    /\ ~isLoading
    /\ UserCount(messages) < limit
    /\ messages' = Append(messages, [role |-> "user", content |-> input])
    /\ input' = <<>>
    /\ isLoading' = TRUE
    /\ cpc' = "thinking"
    /\ sent' = [messages |-> messages, analysisResult |-> analysisResult]
    /\ UNCHANGED <<isStreaming, streamingMessage, acc, ccuts, orphans>>
    /\ UNCHANGED <<pageVars, notClient>>

\* The timeout of sendMessage fires: handleAPIResponse runs up to the await
\* of fetch, which makes a new request to the relay.
StartStreaming ==
    /\ showLLMChat
    /\ cpc = "thinking"
    /\ isStreaming' = TRUE
    /\ streamingMessage' = <<>>
    /\ cpc' = "fetching"
    /\ pc' = [pc EXCEPT ![1] = "idle"]
    /\ up' = [up EXCEPT ![1] = "none"]
    /\ response' = [response EXCEPT ![1] = <<>>]
    /\ cuts' = [cuts EXCEPT ![1] = <<>>]
    /\ sink' = [sink EXCEPT ![1] = "none"]
    /\ out' = [out EXCEPT ![1] = <<>>]
    /\ index' = [index EXCEPT ![IndexSlot(1)] = 0]
    /\ UNCHANGED <<messages, input, isLoading, acc, sent, ccuts, orphans>>
    /\ UNCHANGED <<pageVars, producerVars, analyzeVars, dialogVars>>

\* The catch and the finally of handleAPIResponse.
CatchFinally ==
    /\ messages' = AppendAssistant(messages, ApologyContent)
    /\ isStreaming' = FALSE
    /\ streamingMessage' = <<>>
    /\ isLoading' = FALSE
    /\ cpc' = "idle"

\* fetch rejects: the relay is not reached.
FetchFailed ==
    /\ showLLMChat
    /\ cpc = "fetching"
    /\ pc[1] = "idle"
    /\ CatchFinally
    /\ UNCHANGED <<input, acc, sent, ccuts, orphans>>
    /\ UNCHANGED <<pageVars, notClient>>

\* fetch resolves with the response of the relay, whose status is 200 on
\* both paths: let accumulatedContent = "".  The reads of the dialog divide
\* the stream in any way, so they are taken once the relay has finished.
FetchResolved ==
    /\ showLLMChat
    /\ cpc = "fetching"
    /\ pc[1] \in {"done", "stopped"}
    /\ acc' = <<>>
    /\ ccuts' = <<>>
    /\ cpc' = "reading"
    /\ UNCHANGED <<messages, input, isLoading, isStreaming, streamingMessage,
                   sent, orphans>>
    /\ UNCHANGED <<pageVars, notClient>>

\* reader.read() returns the next k units of the stream, in at most limit
\* chunks, and the for loop handles the lines of the chunk.
ClientRead(k, limit) ==
    /\ showLLMChat
    /\ cpc = "reading"
    /\ k \in 1..(Len(Stream) - CPos)
    /\ Len(ccuts) + 1 < limit \/ CPos + k = Len(Stream)
    /\ ccuts' = Append(ccuts, CPos + k)
    /\ LET chunk == SubSeq(Stream, CPos + 1, CPos + k)
           st == ProcessLines(Split(chunk, NL), LoopState)
       IN  /\ acc' = st.acc
           /\ messages' = st.messages
           /\ streamingMessage' = st.streamingMessage
           /\ isStreaming' = st.isStreaming
    /\ UNCHANGED <<input, isLoading, cpc, sent, orphans>>
    /\ UNCHANGED <<pageVars, notClient>>

\* reader.read() returns a chunk of any length the transport may cut.
ClientReadChunk(limit) == \E k \in 1..Len(Stream) : ClientRead(k, limit)

\* A dialog that presents what it has accumulated as the answer when the
\* stream ends.
AtDoneAppend(ms, a) == AppendAssistant(ms, a)

\* What the dialog does to the conversation when the reader reports done
\* and a has been accumulated: if (done) break.
AtDone(ms, a) == ms

\* reader.read() reports done: the while loop ends and the finally runs.
ClientDone ==
    /\ showLLMChat
    /\ cpc = "reading"
    /\ sink[1] = "closed"
    /\ CPos = Len(Stream)
    /\ messages' = AtDone(messages, acc)
    /\ isLoading' = FALSE
    /\ cpc' = "idle"
    /\ UNCHANGED <<input, isStreaming, streamingMessage, acc, sent, ccuts, orphans>>
    /\ UNCHANGED <<pageVars, notClient>>

\* reader.read() rejects, the relay having signalled an error on the stream.
ClientReadError ==
    /\ showLLMChat
    /\ cpc = "reading"
    /\ sink[1] = "errored"
    /\ CatchFinally
    /\ UNCHANGED <<input, acc, sent, ccuts, orphans>>
    /\ UNCHANGED <<pageVars, notClient>>

\* ============================================================== the page
\* src/app/page.tsx

\* The number of scans that have added an entry to scanHistory.
ScansMade == Len(scanHistory) - Len(InitialHistory)

\* The stream that the cleanup of the effect of CameraCapture stops: the
\* effect has no dependencies, so the cleanup is the one of the render of
\* the mount and its stream is the one of that render.
CleanupStream(mounted, current) == mounted

\* CameraCapture is unmounted: the cleanup stops the tracks of the stream it
\* holds, if any; the state of the dialog is gone, a getUserMedia that has
\* not answered stays pending.
UnmountCamera ==
    /\ liveStreams' = IF CleanupStream(0, camStream) # 0
                      THEN liveStreams - 1 ELSE liveStreams
    /\ lateAsk' = (lateAsk \/ camPc = "asking")
    /\ camPc' = "none"
    /\ camStream' = 0
    /\ camImage' = 0
    /\ camLoading' = TRUE
    /\ camError' = FALSE

\* GalleryUpload is unmounted: its state is gone, and what a FileReader
\* that has not finished sets afterwards is set on nothing.
UnmountGallery ==
    /\ selectedImage' = 0
    /\ reading' = {}
    /\ latest' = 0

\* handleScan, the button being enabled while ~isScanning: without an image
\* it opens the camera; with one it starts the thinking text and awaits.
\* The handler works on the state of the render it was created in.
HandleScan(limit) ==
    /\ ~Covered
    /\ ~isScanning
    /\ IF capturedImage = 0 /\ uploadedImage = 0
       THEN /\ showCamera' = TRUE
            /\ UNCHANGED <<isScanning, spc, scanArgs>>
       ELSE /\ ScansMade < limit
            /\ isScanning' = TRUE
            /\ spc' = "typing"
            /\ scanArgs' = [capturedImage |-> capturedImage,
                            uploadedImage |-> uploadedImage,
                            scanHistory |-> scanHistory]
            /\ UNCHANGED showCamera
    /\ UNCHANGED <<showLLMChat, analysisResult, capturedImage, uploadedImage,
                   scanHistory, showGallery>>
    /\ UNCHANGED <<clientVars, notClient>>

\* const imageToAnalyze = capturedImage || uploadedImage
ImageToAnalyze(args) ==
    IF args.capturedImage # 0 THEN args.capturedImage ELSE args.uploadedImage

\* The thinking text has been typed: handleScan sends imageToAnalyze to
\* /api/analyze-food and awaits.
ScanFetch ==
    /\ spc = "typing"
    /\ spc' = "analyzing"
    /\ UNCHANGED <<showLLMChat, analysisResult, isScanning, capturedImage,
                   uploadedImage, showCamera, scanHistory, showGallery,
                   scanArgs>>
    /\ UNCHANGED <<clientVars, notClient>>

\* The Camera button of the scan tab.
OpenCamera ==
    /\ ~Covered
    /\ showCamera' = TRUE
    /\ UNCHANGED <<showLLMChat, analysisResult, isScanning, spc, capturedImage,
                   uploadedImage, scanHistory, showGallery, scanArgs>>
    /\ UNCHANGED <<clientVars, notClient>>

\* The Gallery button of the scan tab.
OpenGallery ==
    /\ ~Covered
    /\ showGallery' = TRUE
    /\ UNCHANGED <<showLLMChat, analysisResult, isScanning, spc, capturedImage,
                   uploadedImage, showCamera, scanHistory, scanArgs>>
    /\ UNCHANGED <<clientVars, notClient>>

\* handleCameraCapture, which unmounts the camera dialog.
HandleCameraCapture(image) ==
    /\ showCamera
    /\ capturedImage' = image
    /\ uploadedImage' = 0
    /\ showCamera' = FALSE
    /\ UnmountCamera
    /\ UNCHANGED <<showLLMChat, analysisResult, isScanning, spc, scanHistory,
                   showGallery, scanArgs>>
    /\ UNCHANGED <<galleryVars, notPage>>

\* A handleGalleryUpload that sets both images.
HandleGalleryBoth(image) ==
    /\ showGallery
    /\ uploadedImage' = image
    /\ UNCHANGED capturedImage
    /\ showGallery' = FALSE
    /\ UnmountGallery
    /\ UNCHANGED <<showLLMChat, analysisResult, isScanning, spc, scanHistory,
                   showCamera, scanArgs>>
    /\ UNCHANGED <<cameraVars, notPage>>

\* handleGalleryUpload, which unmounts the gallery dialog.
HandleGalleryUpload(image) ==
    /\ showGallery
    /\ uploadedImage' = image
    /\ capturedImage' = 0
    /\ showGallery' = FALSE
    /\ UnmountGallery
    /\ UNCHANGED <<showLLMChat, analysisResult, isScanning, spc, scanHistory,
                   showCamera, scanArgs>>
    /\ UNCHANGED <<cameraVars, notPage>>

\* onClose of CameraCapture
CloseCamera ==
    /\ showCamera
    /\ showCamera' = FALSE
    /\ UnmountCamera
    /\ UNCHANGED <<showLLMChat, analysisResult, isScanning, spc, capturedImage,
                   uploadedImage, scanHistory, showGallery, scanArgs>>
    /\ UNCHANGED <<galleryVars, notPage>>

\* onClose of GalleryUpload
CloseGallery ==
    /\ showGallery
    /\ showGallery' = FALSE
    /\ UnmountGallery
    /\ UNCHANGED <<showLLMChat, analysisResult, isScanning, spc, capturedImage,
                   uploadedImage, showCamera, scanHistory, scanArgs>>
    /\ UNCHANGED <<cameraVars, notPage>>

\* An id that counts the entries without the new one.
NewScanIdLength == Len(scanArgs.scanHistory)

\* id: scanHistory.length + 1
NewScanId == Len(scanArgs.scanHistory) + 1

\* setScanHistory([newScan, ...scanHistory])
NewScanHistory == <<NewScanId>> \o scanArgs.scanHistory

\* The analysis answers: setAnalysisResult(result) and the new entry of
\* scanHistory; the finally sets its timeout.  A mounted chat dialog gets
\* the new analysisResult, and its effect sets the conversation.
ScanResolved ==
    /\ spc = "analyzing"
    /\ analysisResult' = NewScanId
    /\ scanHistory' = NewScanHistory
    /\ spc' = "finishing"
    /\ IF showLLMChat
       THEN messages' = <<InitialMessage(NewScanId)>>
       ELSE UNCHANGED messages
    /\ UNCHANGED <<showLLMChat, isScanning, capturedImage, uploadedImage,
                   showCamera, showGallery, scanArgs>>
    /\ UNCHANGED <<input, isLoading, isStreaming, streamingMessage, cpc, acc,
                   sent, ccuts, orphans>>
    /\ UNCHANGED notClient

\* The analysis fails: the catch adds an entry of mock data.
ScanFailed ==
    /\ spc = "analyzing"
    /\ scanHistory' = NewScanHistory
    /\ spc' = "finishing"
    /\ UNCHANGED <<showLLMChat, analysisResult, isScanning, capturedImage,
                   uploadedImage, showCamera, showGallery, scanArgs>>
    /\ UNCHANGED <<clientVars, notClient>>

\* The timeout of the finally fires.
ScanFinished ==
    /\ spc = "finishing"
    /\ isScanning' = FALSE
    /\ spc' = "idle"
    /\ scanArgs' = NoScan
    /\ UNCHANGED <<showLLMChat, analysisResult, capturedImage, uploadedImage,
                   showCamera, scanHistory, showGallery>>
    /\ UNCHANGED <<clientVars, notClient>>

\* The button shown while analysisResult is set: the dialog is mounted with
\* the useState initial values and its effect sets the conversation.
OpenChat ==
    /\ ~Covered
    /\ analysisResult # 0
    /\ showLLMChat' = TRUE
    /\ messages' = <<InitialMessage(analysisResult)>>
    /\ UNCHANGED <<analysisResult, isScanning, spc, capturedImage,
                   uploadedImage, showCamera, scanHistory, showGallery,
                   scanArgs>>
    /\ UNCHANGED <<input, isLoading, isStreaming, streamingMessage, cpc, acc,
                   sent, ccuts, orphans>>
    /\ UNCHANGED notClient

\* onClose of LLMChat: the dialog is unmounted and its state is gone; what
\* an exchange in progress sets afterwards is set on nothing.
CloseChat ==
    /\ showLLMChat
    /\ cpc = "idle" \/ orphans.thinking + orphans.fetching < MaxOrphans
    /\ orphans' =
          IF cpc = "thinking"
          THEN [orphans EXCEPT !.thinking = @ + 1]
          ELSE IF cpc \in {"fetching", "reading"}
          THEN [orphans EXCEPT !.fetching = @ + 1]
          ELSE orphans
    /\ showLLMChat' = FALSE
    /\ messages' = <<>>
    /\ input' = <<>>
    /\ isLoading' = FALSE
    /\ isStreaming' = FALSE
    /\ streamingMessage' = <<>>
    /\ cpc' = "idle"
    /\ acc' = <<>>
    /\ sent' = NoRequest
    /\ ccuts' = <<>>
    /\ UNCHANGED <<analysisResult, isScanning, spc, capturedImage,
                   uploadedImage, showCamera, scanHistory, showGallery,
                   scanArgs>>
    /\ UNCHANGED notClient

\* The images the camera delivers.
Images == {1}

\* ------------------------------------------------------ the camera dialog
\* CameraCapture of src/components/camera-capture.tsx

\* The frames that capturePhoto can draw.
Photos == {1, 2}

\* The effect of the mount calls startCamera, which asks for the camera and
\* awaits; the Try Again button calls it again.
StartCamera ==
    /\ showCamera
    /\ camPc = "none" \/ (camPc = "settled" /\ camError)
    /\ camPc' = "asking"
    /\ camLoading' = TRUE
    /\ camError' = FALSE
    /\ UNCHANGED <<camStream, camImage, liveStreams, lateAsk>>
    /\ UNCHANGED <<pageVars, galleryVars, notPage>>

\* getUserMedia resolves with a stream: setStream(mediaStream).
CameraGranted ==
    /\ showCamera
    /\ camPc = "asking"
    /\ liveStreams < MaxStreams
    /\ camStream' = 1
    /\ liveStreams' = liveStreams + 1
    /\ camLoading' = FALSE
    /\ camPc' = "settled"
    /\ UNCHANGED <<camImage, camError, lateAsk>>
    /\ UNCHANGED <<pageVars, galleryVars, notPage>>

\* getUserMedia rejects: the catch of startCamera.
CameraDenied ==
    /\ showCamera
    /\ camPc = "asking"
    /\ camError' = TRUE
    /\ camLoading' = FALSE
    /\ camPc' = "settled"
    /\ UNCHANGED <<camStream, camImage, liveStreams, lateAsk>>
    /\ UNCHANGED <<pageVars, galleryVars, notPage>>

\* The getUserMedia of a dialog that has been closed resolves: the stream
\* is set on nothing, and nothing holds it.
LateGranted ==
    /\ lateAsk
    /\ liveStreams < MaxStreams
    /\ lateAsk' = FALSE
    /\ liveStreams' = liveStreams + 1
    /\ UNCHANGED <<camPc, camStream, camImage, camLoading, camError>>
    /\ UNCHANGED <<pageVars, galleryVars, notPage>>

\* The getUserMedia of a dialog that has been closed rejects.
LateDenied ==
    /\ lateAsk
    /\ lateAsk' = FALSE
    /\ UNCHANGED <<camPc, camStream, camImage, camLoading, camError,
                   liveStreams>>
    /\ UNCHANGED <<pageVars, galleryVars, notPage>>

\* capturePhoto, its button being disabled while isLoading or error.
CapturePhoto(image) ==
    /\ showCamera
    /\ camImage = 0
    /\ ~camLoading /\ ~camError
    /\ camImage' = image
    /\ UNCHANGED <<camPc, camStream, camLoading, camError, liveStreams,
                   lateAsk>>
    /\ UNCHANGED <<pageVars, galleryVars, notPage>>

\* retakePhoto
RetakePhoto ==
    /\ showCamera
    /\ camImage # 0
    /\ camImage' = 0
    /\ UNCHANGED <<camPc, camStream, camLoading, camError, liveStreams,
                   lateAsk>>
    /\ UNCHANGED <<pageVars, galleryVars, notPage>>

\* confirmCapture: onCapture(capturedImage)
ConfirmCapture ==
    /\ camImage # 0
    /\ HandleCameraCapture(camImage)

\* ----------------------------------------------------- the gallery dialog
\* GalleryUpload of src/components/camera-capture.tsx

\* The files the user can choose or drop: image files, named by their data,
\* and a file of another type.
ImageFiles == {1, 2}

OtherFiles == {3}

\* handleFileSelect, from the file input or a drop, both shown while no
\* image is selected: an image file is given to a FileReader of its own.
HandleFileSelect(file) ==
    /\ showGallery
    /\ selectedImage = 0
    /\ file \notin reading
    /\ IF file \in ImageFiles
       THEN /\ reading' = reading \cup {file}
            /\ latest' = file
       ELSE UNCHANGED <<reading, latest>>
    /\ UNCHANGED selectedImage
    /\ UNCHANGED <<pageVars, cameraVars, notPage>>

\* reader.onload of one of the FileReaders, in any order.
FileLoaded(file) ==
    /\ showGallery
    /\ file \in reading
    /\ selectedImage' = file
    /\ reading' = reading \ {file}
    /\ UNCHANGED latest
    /\ UNCHANGED <<pageVars, cameraVars, notPage>>

\* resetSelection, the button Choose Different.
ResetSelection ==
    /\ showGallery
    /\ selectedImage # 0
    /\ selectedImage' = 0
    /\ latest' = 0
    /\ UNCHANGED reading
    /\ UNCHANGED <<pageVars, cameraVars, notPage>>

\* confirmUpload: onUpload(selectedImage)
ConfirmUpload ==
    /\ selectedImage # 0
    /\ HandleGalleryUpload(selectedImage)

\* The page with its two dialogs.
NextPage ==
    \/ HandleScan(MaxScans)
    \/ ScanFetch
    \/ ScanResolved
    \/ ScanFailed
    \/ ScanFinished
    \/ OpenCamera
    \/ OpenGallery
    \/ CloseCamera
    \/ CloseGallery
    \/ StartCamera
    \/ CameraGranted
    \/ CameraDenied
    \/ LateGranted
    \/ LateDenied
    \/ \E image \in Photos : CapturePhoto(image)
    \/ RetakePhoto
    \/ ConfirmCapture
    \/ \E file \in ImageFiles \cup OtherFiles : HandleFileSelect(file)
    \/ \E file \in ImageFiles : FileLoaded(file)
    \/ ResetSelection
    \/ ConfirmUpload

SpecPage == Init /\ [][NextPage]_vars

\* ------------------------------------------- the dialog and its exchange

\* The response the producer selects for the exchange.
ClientResponse == <<"a", SP, "b">>

\* The chunks the stream of the exchange reaches the dialog in: one cut at
\* any place, which is what cuts a line or the sentinel in two and what
\* puts the lines after a sentinel in a later chunk.
ClientChunks == 2

\* One exchange of a dialog, from the scan that gives it its analysisResult
\* to the end of the stream, the relay answering on either path and the
\* transport dividing the body and the stream in any way.
NextClient ==
    \/ HandleScan(1)
    \/ ScanFetch
    \/ \E image \in Images : HandleCameraCapture(image)
    \/ ScanResolved
    \/ ScanFinished
    \/ OpenChat
    \/ \E t \in UserTexts : SetInput(t)
    \/ SendMessage(1)
    \/ StartStreaming
    \/ FetchFailed
    \/ cpc = "fetching" /\ \E body \in BOOLEAN :
                                PostSuccess(1, ClientResponse, body)
    \/ cpc = "fetching" /\ PostFallback(1, "unreachable")
    \/ Timer(1)
    \/ ReadChunk(1, ConcChunks)
    \/ ReadDone(1)
    \/ ReadFail(1)
    \/ FetchResolved
    \/ ClientReadChunk(ClientChunks)
    \/ ClientDone
    \/ ClientReadError

SpecClient == Init /\ [][NextClient]_vars

\* ---------------------------------------------------------------- C11

RECURSIVE BeforeSentinel(_)
\* The lines of a stream that precede its first sentinel line.
BeforeSentinel(lines) ==
    IF lines = <<>> \/ Head(lines) = DoneLine THEN <<>>
    ELSE <<Head(lines)>> \o BeforeSentinel(Tail(lines))

\* A read step of the dialog in which the for loop meets the sentinel.
ReadsSentinel ==
    /\ cpc = "reading"
    /\ ccuts' # ccuts
    /\ Len(messages') = Len(messages) + 1

\* C11: when the dialog reads the sentinel it appends an assistant message
\* whose content is the concatenation, in arrival order, of the content
\* values of the lines the stream delivered before the sentinel, it clears
\* streamingMessage and sets isStreaming to false.  (Stated as claimed; a
\* line the transport cuts in two is lost to the message.)
C11_MessageIsContents ==
    [][ ReadsSentinel =>
            /\ Last(messages').role = "assistant"
            /\ Last(messages').content = Contents(BeforeSentinel(out[1]))
            /\ streamingMessage' = <<>>
            /\ isStreaming' = FALSE ]_vars

\* ---------------------------------------------------------------- C12

\* The exchange has met no sentinel: its user message is still the last.
NoSentinelMet == messages # <<>> /\ Last(messages).role = "user"

\* C12: when the reader reports done and the dialog has met no sentinel, the
\* handler ends normally, appends no assistant message and sets isLoading
\* to false.
C12_IncompleteNotAppended ==
    [][ (cpc = "reading" /\ cpc' # "reading" /\ sink[1] = "closed"
         /\ NoSentinelMet)
            => /\ cpc' = "idle"
               /\ messages' = messages
               /\ isLoading' = FALSE ]_vars

\* A stream that was closed has been read to its end, content has been
\* accumulated, no sentinel was met, and the handler has ended.
C12_Witness ==
    /\ cpc = "idle"
    /\ sink[1] = "closed"
    /\ ccuts # <<>>
    /\ CPos = Len(Stream)
    /\ acc # <<>>
    /\ NoSentinelMet
    /\ ~isLoading

\* ---------------------------------------------------------------- C13

\* The chunk a read step of the dialog returns, in lines.
ClientLinesRead == Split(SubSeq(Stream, CPos + 1, Last(ccuts')), NL)

\* A data line the dialog cannot decode: JSON.parse throws.
Undecodable(line) ==
    /\ IsDataLine(line)
    /\ ~IsSentinel(Slice6(line))
    /\ ~JSONParse(Slice6(line)).ok

\* A data line the dialog decodes to a content value.
Decodable(line) == IsDataLine(line) /\ JSONParse(Slice6(line)).ok

\* The lines of a chunk up to its first sentinel line.
UpToSentinel(ls) ==
    LET ends == {i \in 1..Len(ls) :
                    IsDataLine(ls[i]) /\ IsSentinel(Slice6(ls[i]))}
    IN  IF ends = {} THEN ls
        ELSE SubSeq(ls, 1, (CHOOSE i \in ends : \A j \in ends : i <= j) - 1)

\* The content values of the lines the dialog decodes, in order.
DecodedContents(ls) ==
    Concat([i \in 1..Len(ls) |->
               IF Decodable(ls[i]) THEN JSONParse(Slice6(ls[i])).content
               ELSE <<>>])

\* Some line of ls for which Bad holds is followed by one for which Good
\* holds.
SkipsThenKeeps(ls, Bad(_), Good(_)) ==
    \E i, j \in 1..Len(ls) : i < j /\ Bad(ls[i]) /\ Good(ls[j])

\* The lines of the chunk a read step of the relay returns.
RelayLinesRead == Split(ChunkRead(1), NL)

\* The lines a step of the relay writes.
Written == SubSeq(out'[1], Len(out[1]) + 1, Len(out'[1]))

\* C13: a line that cannot be framed or decoded is dropped, and the lines
\* after it are handled.  A read step of the relay with the sink open writes
\* no line that does not start with "data: ", writes every data line of the
\* chunk, also those after a line it skips, and neither closes nor errors
\* the sink.  A read step of the dialog passes over the data lines whose
\* payload JSON.parse rejects, accumulates the content of every line it
\* decodes up to the sentinel, also of those after a rejected line, and
\* goes on reading without an error message.
C13_DroppedSilently ==
    [][ /\ (cuts'[1] # cuts[1] /\ sink[1] = "readable")
            => \A ls \in {RelayLinesRead} : \A w \in {Written} :
               /\ \A n \in 1..Len(w) : IsDataLine(w[n])
               /\ \A j \in 1..Len(ls) :
                      IsDataLine(ls[j])
                          => \E n \in 1..Len(w) : w[n] = ls[j] \o <<NL>>
               /\ Len(w) = Len(SelectSeq(ls, IsDataLine))
               /\ sink'[1] = "readable"
               /\ pc'[1] = "reading"
        /\ (cpc = "reading" /\ ccuts' # ccuts)
            => \A ls \in {ClientLinesRead} : \A pre \in {UpToSentinel(ls)} :
               /\ acc' = acc \o DecodedContents(pre)
               /\ cpc' = "reading"
               /\ \/ messages' = messages
                  \/ /\ pre # ls
                     /\ messages' = AppendAssistant(messages, acc') ]_vars

\* The relay has read a chunk with a line it skipped before a line it
\* forwarded, and the dialog has read a chunk with a data line it could not
\* decode before a line whose content it has accumulated.
C13_Witness ==
    /\ Len(cuts[1]) = 2
    /\ SkipsThenKeeps(
           Split(SubSeq(Body(response[1]), cuts[1][1] + 1, cuts[1][2]), NL),
           LAMBDA l : ~IsDataLine(l), IsDataLine)
    /\ Len(ccuts) = 1
    /\ SkipsThenKeeps(Split(SubSeq(Stream, 1, ccuts[1]), NL),
                      Undecodable, LAMBDA l : Decodable(l))
    /\ acc # <<>>
    /\ cpc = "reading"

\* ============================================== the response producer
\* generate_chat_response and generate() of src/README.md.  A word is one
\* unit, a number is the units of its decimal digits.

\* The text of the words ws, joined by single spaces.
Say(ws) == JoinWords([i \in 1..Len(ws) |-> <<ws[i]>>])

Digits == <<"0", "1", "2", "3", "4", "5", "6", "7", "8", "9">>

RECURSIVE ToDecimal(_)
\* str(n) of a natural number, as an f-string formats it.
ToDecimal(n) ==
    IF n < 10 THEN <<Digits[n + 1]>>
    ELSE ToDecimal(n \div 10) \o <<Digits[(n % 10) + 1]>>

\* NUTRITION_RESPONSES
NUTRITION_RESPONSES == <<
    Say(<<
        "Based", "on", "the", "nutritional", "analysis,", "this", "food",
        "contains", "several", "important", "nutrients", "that", "support",
        "overall", "health." >>),
    Say(<<
        "The", "caloric", "content", "appears", "to", "be", "moderate,",
        "making", "it", "suitable", "for", "most", "dietary", "plans." >>),
    Say(<<
        "I", "notice", "this", "food", "has", "a", "good", "balance", "of",
        "macronutrients", "including", "proteins,", "carbohydrates,", "and",
        "healthy", "fats." >>),
    Say(<<
        "From", "a", "health", "perspective,", "this", "food", "provides",
        "essential", "vitamins", "and", "minerals", "your", "body", "needs." >>),
    Say(<<
        "The", "fiber", "content", "in", "this", "food", "can", "help",
        "support", "digestive", "health", "and", "maintain", "stable",
        "blood", "sugar", "levels." >>),
    Say(<<
        "This", "food", "contains", "antioxidants", "that", "may", "help",
        "protect", "your", "cells", "from", "oxidative", "stress." >>),
    Say(<<
        "The", "protein", "content", "makes", "this", "a", "good", "choice",
        "for", "muscle", "maintenance", "and", "repair." >>),
    Say(<<
        "Consider", "pairing", "this", "with", "complementary", "foods",
        "to", "create", "a", "more", "balanced", "nutritional", "profile." >>) >>

\* str.lower() of a unit: the units with capital letters of the texts below.
LowerUnit(u) ==
    CASE u = "Calories" -> "calories"
      [] u = "CALORIES" -> "calories"
      [] u = "How" -> "how"
      [] u = "Any" -> "any"
      [] OTHER -> u

\* A producer that compares the message as typed.
LowerNot(s) == s

\* last_message.lower()
Lower(s) == [i \in 1..Len(s) |-> LowerUnit(s[i])]

\* word in last_message.lower()
Mentions(s, word) == Contains(Lower(s), <<word>>)

\* The keys a context may hold.
ContextKeys == {"food_name", "health_score", "calories", "nutritional_info"}

\* No context: None.
NoContext ==
    [given |-> FALSE, keys |-> {}, food_name |-> <<>>, health_score |-> 0,
     calories |-> 0, protein |-> <<>>]

\* The context of an analysis result that holds the keys ks.
Context(ks, food, cal) ==
    [given |-> TRUE, keys |-> ks, food_name |-> food, health_score |-> 88,
     calories |-> cal, protein |-> <<"12g">>]

\* context.get('calories', 'unknown')
GetCalories(ctx) ==
    IF "calories" \in ctx.keys THEN ToDecimal(ctx.calories) ELSE <<"unknown">>

\* context.get("health_score", 75)
GetHealthScore(ctx) ==
    IF "health_score" \in ctx.keys THEN ToDecimal(ctx.health_score)
    ELSE ToDecimal(75)

\* context.get('nutritional_info', {}).get('protein', 'unknown')
GetProtein(ctx) ==
    IF "nutritional_info" \in ctx.keys THEN ctx.protein ELSE <<"unknown">>

\* if context and "food_name" in context
HasFoodName(ctx) == ctx.given /\ ctx.keys # {} /\ "food_name" \in ctx.keys

\* The response for a context with a food name: the branches on the words
\* of the last message, in the order of the code.
ContextualResponse(last, ctx) ==
    IF Mentions(last, "calories")
    THEN <<"The", SP>> \o ctx.food_name \o <<SP>>
         \o Say(<<"contains", "approximately">>) \o <<SP>>
         \o GetCalories(ctx) \o <<SP>>
         \o Say(<<
             "calories.", "This", "is", "considered", "a", "moderate", "caloric",
             "content", "that", "fits", "well", "into", "most", "daily", "meal",
             "plans." >>)
    ELSE IF Mentions(last, "health") \/ Mentions(last, "benefit")
    THEN <<"The", SP>> \o ctx.food_name \o <<SP>>
         \o Say(<<"has", "a", "health", "score", "of">>) \o <<SP>>
         \o GetHealthScore(ctx) \o <<"/100.", SP>>
         \o Say(<<
             "It", "offers", "several", "health", "benefits", "including",
             "essential", "nutrients,", "vitamins,", "and", "minerals", "that",
             "support", "your", "overall", "wellness." >>)
    ELSE IF Mentions(last, "protein")
    THEN <<"This", SP>> \o ctx.food_name \o <<SP, "contains", SP>>
         \o GetProtein(ctx) \o <<SP>>
         \o Say(<<
             "of", "protein,", "which", "is", "important", "for", "muscle",
             "maintenance", "and", "repair." >>)
    ELSE IF Mentions(last, "recommend")
    THEN <<"For", SP, "the", SP>> \o ctx.food_name \o <<",", SP>>
         \o Say(<<
             "I", "recommend", "consuming", "it", "as", "part", "of", "a",
             "balanced", "meal.", "You", "could", "pair", "it", "with",
             "complementary", "foods", "to", "enhance", "its", "nutritional",
             "value." >>)
    ELSE <<"Regarding", SP, "the", SP>> \o ctx.food_name \o <<SP>>
         \o Say(<<
             "you", "scanned,", "it's", "a", "nutritious", "choice", "with", "a",
             "health", "score", "of" >>)
         \o <<SP>> \o GetHealthScore(ctx) \o <<"/100.", SP>>
         \o Say(<<
             "What", "specific", "aspect", "would", "you", "like", "to", "know",
             "more", "about?" >>)

\* A producer that selects among the mock responses whatever the context.
SelectionsAny(last, ctx) ==
    {NUTRITION_RESPONSES[i] : i \in 1..Len(NUTRITION_RESPONSES)}

\* The responses the producer may select: the contextual one, or
\* random.choice(NUTRITION_RESPONSES).
Selections(last, ctx) ==
    IF HasFoodName(ctx) THEN {ContextualResponse(last, ctx)}
    ELSE {NUTRITION_RESPONSES[i] : i \in 1..Len(NUTRITION_RESPONSES)}

\* A producer that reads the last message of any history.
LastContentUnguarded(ms) ==
    IF ms = <<>> THEN [raised |-> TRUE, text |-> <<>>]
    ELSE [raised |-> FALSE, text |-> Last(ms).content]

\* messages[-1]["content"] if messages else ""; raised where it raises.
LastContent(ms) ==
    IF ms = <<>> THEN [raised |-> FALSE, text |-> <<>>]
    ELSE [raised |-> FALSE, text |-> Last(ms).content]

\* The texts of the messages of a history.
ProducerTexts == {
    <<"How", SP, "many", SP, "Calories", "?">>,
    <<"CALORIES", SP, "or", SP, "protein", "?">>,
    <<"Any", SP, "benefit", "?">>,
    <<"protein">>,
    <<"recommend", SP, "one">>,
    <<"hello">> }

\* A history of n messages whose last is the message t of the user; the
\* producer reads the content of the last message only.
History(n, t) ==
    [i \in 1..n |-> IF i < n THEN InitialMessage(1)
                    ELSE [role |-> "user", content |-> t]]

\* The histories of at most MaxHistory messages.
Histories ==
    {<<>>} \cup {History(n, t) : n \in 1..MaxHistory, t \in ProducerTexts}

\* The contexts: none, an analysis result without a food name, and analysis
\* results with one, with and without a calorie count.
Contexts ==
    {NoContext, Context({"calories"}, <<>>, 95)}
    \cup {Context(ContextKeys, FoodNames[1], 95),
          Context(ContextKeys, FoodNames[7], 250),
          Context({"food_name"}, FoodNames[1], 0)}

\* The fragments the invocation has yielded.
Yielded == SubSeq(Fragments(ptext), 1, pi)

\* The first call of the generator: it reads the last message and selects
\* the response.
Select(ms, ctx) ==
    IF LastContent(ms).raised
    THEN /\ pst' = "raised"
         /\ ptext' = <<>>
    ELSE /\ pst' = "running"
         /\ ptext' \in Selections(LastContent(ms).text, ctx)

\* generate_chat_response(messages, context) is invoked.
Invoke(ms, ctx) ==
    /\ pst = "idle"
    /\ pin' = [messages |-> ms, context |-> ctx]
    /\ prun' = 1
    /\ pi' = 0
    /\ Select(ms, ctx)
    /\ UNCHANGED pfirst
    /\ UNCHANGED notProducer

\* yield json.dumps({"content": chunk}) + "\n" for the next word.
Yield ==
    /\ pst = "running"
    /\ pi < Len(Fragments(ptext))
    /\ pi' = pi + 1
    /\ UNCHANGED <<pin, prun, pst, ptext, pfirst>>
    /\ UNCHANGED notProducer

\* The for loop over the words ends: the generator is exhausted.
Finish ==
    /\ pst = "running"
    /\ pi = Len(Fragments(ptext))
    /\ pst' = "finished"
    /\ UNCHANGED <<pin, prun, ptext, pi, pfirst>>
    /\ UNCHANGED notProducer

\* The producer is invoked again with the arguments of the first invocation.
InvokeAgain ==
    /\ pst = "finished"
    /\ prun = 1
    /\ prun' = 2
    /\ pfirst' = Yielded
    /\ pi' = 0
    /\ Select(pin.messages, pin.context)
    /\ UNCHANGED pin
    /\ UNCHANGED notProducer

\* One invocation of the producer by generate(), whose body the relay
\* forwards once the producer has finished.
NextProducer ==
    \/ \E ms \in Histories, ctx \in Contexts : Invoke(ms, ctx)
    \/ Yield
    \/ Finish
    \/ pst = "finished" /\ PostSuccess(1, ptext, TRUE)
    \/ ReadChunk(1, 1)
    \/ ReadDone(1)

SpecProducer == Init /\ [][NextProducer]_vars

\* Two invocations with the same arguments.
NextTwice ==
    \/ \E ms \in Histories, ctx \in Contexts : Invoke(ms, ctx)
    \/ Yield
    \/ Finish
    \/ InvokeAgain

SpecTwice == Init /\ [][NextTwice]_vars

\* ---------------------------------------------------------------- C14

\* The producer was invoked with an empty history and no context.
EmptyNoContext ==
    /\ pst # "idle"
    /\ pin.messages = <<>>
    /\ ~pin.context.given

\* C14: for every history and context the producer never raises and yields
\* no more fragments than its response has words; every step it takes
\* yields the next fragment or, all fragments yielded, ends it, so it ends
\* after as many yields as the response has words.  For an empty history
\* and no context the stream the relay has forwarded and closed carries
\* content and ends with the sentinel.
C14_FiniteNoRaise ==
    /\ [](pst # "raised" /\ pi <= Len(Fragments(ptext)))
    /\ []((EmptyNoContext /\ sink[1] = "closed")
            => /\ Contents(out[1]) # <<>>
               /\ Last(out[1]) = DoneLine)
    /\ [][ pst = "running"
             => \/ pst' = "running" /\ pi' = pi + 1
                \/ pst' = "finished" /\ pi' = pi
                                     /\ pi = Len(Fragments(ptext)) ]_vars

\* The producer has finished for an empty history and no context, having
\* yielded fragments, and the relay has closed the sink.
C14_Witness ==
    /\ EmptyNoContext
    /\ pst = "finished"
    /\ pi > 0
    /\ sink[1] = "closed"

\* ---------------------------------------------------------------- C15

\* The word "calories" in the letter cases of the texts.
CaloriesSpellings == {"calories", "Calories", "CALORIES"}

\* The context holds a food name and a calorie count, and the last message
\* of the history contains the word "calories" in some letter case.
CaloriesCase ==
    /\ pst \in {"running", "finished"}
    /\ "food_name" \in pin.context.keys
    /\ "calories" \in pin.context.keys
    /\ pin.messages # <<>>
    /\ \E i \in 1..Len(Last(pin.messages).content) :
           Last(pin.messages).content[i] \in CaloriesSpellings

\* C15: in that case the concatenation of the fragments the producer has
\* yielded when it finishes contains the food name and the decimal digits
\* of the calorie count, and the output of the relay, once it has closed the
\* sink, ends with the sentinel line.
C15_NamesFoodAndCalories ==
    /\ (CaloriesCase /\ pst = "finished")
           => \A text \in {Concat(Yielded)} :
                  /\ Contains(text, pin.context.food_name)
                  /\ Contains(text, ToDecimal(pin.context.calories))
    /\ (CaloriesCase /\ sink[1] = "closed") => Last(out[1]) = DoneLine

\* The producer has answered "CALORIES or protein?" about a Rice Bowl of
\* 250 calories, and the relay has closed the sink.
C15_Witness ==
    /\ CaloriesCase
    /\ pst = "finished"
    /\ pin.context.food_name = <<"Rice", SP, "Bowl">>
    /\ pin.context.calories = 250
    /\ Last(pin.messages).content[1] = "CALORIES"
    /\ sink[1] = "closed"

\* ---------------------------------------------------------------- C16

\* C16 as claimed: two invocations with the same history and the same
\* context, no context included, yield the same sequence of fragments.
C16_SameFragments ==
    (prun = 2 /\ pst = "finished") => Yielded = pfirst

\* C16, amended: two invocations with the same history and the same context
\* yield the same sequence of fragments when the context holds a food name;
\* otherwise each yields the fragments of one of the general responses.
C16_SameFragmentsWithFood ==
    /\ (prun = 2 /\ pst = "finished" /\ HasFoodName(pin.context))
           => Yielded = pfirst
    /\ (pst = "finished" /\ ~HasFoodName(pin.context))
           => \E i \in 1..Len(NUTRITION_RESPONSES) :
                  Yielded = Fragments(NUTRITION_RESPONSES[i])

\* The second invocation with a context that holds a food name has
\* finished.
C16_Witness ==
    /\ prun = 2
    /\ pst = "finished"
    /\ HasFoodName(pin.context)
    /\ pfirst # <<>>
    /\ Yielded = pfirst

\* ===================================================== the chat session
\* The page with its scans and the chat dialog with its exchanges; the
\* relay answers each request with the stream of a one-word response, on
\* either path, and the stream reaches the dialog in one chunk.

\* The timeout of a sendMessage whose dialog has been closed fires:
\* handleAPIResponse makes its request all the same, llm-chat.tsx:85-97.
OrphanFetch ==
    /\ orphans.thinking > 0
    /\ orphans' = [orphans EXCEPT !.thinking = @ - 1, !.fetching = @ + 1]
    /\ UNCHANGED <<messages, input, isLoading, isStreaming, streamingMessage,
                   cpc, acc, sent, ccuts>>
    /\ UNCHANGED <<pageVars, notClient>>

\* The handleAPIResponse of a closed dialog reads its stream to the end, or
\* its fetch or a read fails; what it sets is set on nothing.
OrphanDone ==
    /\ orphans.fetching > 0
    /\ orphans' = [orphans EXCEPT !.fetching = @ - 1]
    /\ UNCHANGED <<messages, input, isLoading, isStreaming, streamingMessage,
                   cpc, acc, sent, ccuts>>
    /\ UNCHANGED <<pageVars, notClient>>

NextSession ==
    \/ HandleScan(MaxScans)
    \/ ScanFetch
    \/ \E image \in Images : HandleCameraCapture(image)
    \/ CloseCamera
    \/ ScanResolved
    \/ ScanFailed
    \/ ScanFinished
    \/ OpenChat
    \/ CloseChat
    \/ OrphanFetch
    \/ OrphanDone
    \/ \E t \in UserTexts : SetInput(t)
    \/ SendMessage(MaxSends)
    \/ StartStreaming
    \/ FetchFailed
    \/ cpc = "fetching" /\ PostSuccess(1, ConcResponse(1), TRUE)
    \/ cpc = "fetching" /\ ReadChunk(1, 1)
    \/ cpc = "fetching" /\ ReadDone(1)
    \/ cpc = "fetching" /\ ReadFail(1)
    \/ FetchResolved
    \/ ClientReadChunk(1)
    \/ ClientDone
    \/ ClientReadError

SpecSession == Init /\ [][NextSession]_vars

\* ---------------------------------------------------------------- C17

\* s is a prefix of t.
IsPrefix(s, t) == Len(s) <= Len(t) /\ SubSeq(t, 1, Len(s)) = s

\* C17: from the opening of the chat dialog to its closing, every step keeps
\* the messages of the conversation as a prefix of the new list.  (Stated
\* as claimed; a scan that finishes while the dialog is open replaces the
\* list.)
C17_AppendOnly ==
    [][(showLLMChat /\ showLLMChat') => IsPrefix(messages, messages')]_vars

\* ---------------------------------------------------------------- C18

\* C18: from the opening of the chat dialog to its closing the
\* analysisResult the dialog is given does not change, and the one a request
\* is sent with is the one the dialog is given.  (Stated as claimed; the
\* dialog is given the state of the page, which a scan that finishes sets.)
C18_ContextImmutable ==
    [][(showLLMChat /\ showLLMChat')
          => /\ analysisResult' = analysisResult
             /\ (sent' # sent => sent'.analysisResult = analysisResult)]_vars

\* ------------------------------------------------- the analysis route
\* src/app/api/analyze-food/route.ts: POST forwards the image to the
\* upstream /analyze-food and answers with the upstream's result, or, when
\* anything inside the try throws, with a made-up result.

\* Math.random() is drawn either as RandomDraw k, the real k / RandomGrain
\* away from the ends of a unit of the results, or as BelowOne j, the
\* double 1 - j * 2^-53 (the largest values below 1).
RandomGrain == 1000

RandomDraw(k) == [grid |-> k, below |-> 0]

BelowOne(j) == [grid |-> 0, below |-> j]

Randoms ==
    {RandomDraw(0), RandomDraw(502), RandomDraw(998)}
        \cup {BelowOne(j) : j \in 1..MaxBelowOne}

\* The spacing of the doubles below x, in units of 2^-53: the least power
\* of two above x (x is not a power of two).
RECURSIVE SpacingFrom(_, _)
SpacingFrom(x, p) == IF p > x THEN p ELSE SpacingFrom(x, 2 * p)

Spacing(x) == SpacingFrom(x, 1)

\* a / b rounded to the nearest integer, ties to the even one.
RoundHalfEven(a, b) ==
    LET q == a \div b
        rem == a % b
    IN  IF 2 * rem < b THEN q
        ELSE IF 2 * rem > b THEN q + 1
        ELSE IF q % 2 = 0 THEN q ELSE q + 1

\* Math.floor(Math.random() * scale + offset).  For a draw away from the
\* ends the rounding of the product and of the sum does not reach the next
\* integer.  For 1 - j * 2^-53 the product scale - scale * j * 2^-53 is
\* rounded to the doubles below scale, m spacings below it, and the sum
\* scale + offset - m spacings to the doubles below scale + offset: the
\* sum is scale + offset itself when that rounds to no spacing at all.
FloorRandom(r, scale, offset) ==
    IF r.below = 0
    THEN (r.grid * scale) \div RandomGrain + offset
    ELSE LET m == RoundHalfEven(scale * r.below, Spacing(scale))
             m2 == RoundHalfEven(m * Spacing(scale), Spacing(scale + offset))
         IN  IF m2 = 0 THEN scale + offset ELSE scale + offset - 1

\* The text of the made-up analysis, route.ts:48-64.
FallbackAnalysis(r3) ==
    <<"## Food Analysis Results", "**Health Score: ">>
        \o ToDecimal(FloorRandom(r3, 40, 60)) \o <<"/100**">>

\* The made-up result of the catch block, route.ts:43-73.
Fallback(r1, r2, r3) ==
    [status |-> 200,
     body |-> [m \in Members |->
        CASE m = "success" -> JsonTrue
          [] m = "food_name" -> Str(<<"Sample", SP, "Food">>)
          [] m = "health_score" -> Num(FloorRandom(r1, 40, 60))
          [] m = "calories" -> Num(FloorRandom(r2, 200, 100))
          [] m = "analysis" -> Str(FallbackAnalysis(r3))
          [] m = "nutritional_info" -> Obj(<<"protein: 12g", "carbs: 25g">>)
          [] m = "health_benefits" -> Obj(<<"Supports immune system">>)
          [] m = "recommendations" -> Obj(<<"Best eaten fresh">>)]]

\* The answer on the success path, route.ts:29-38: success and the seven
\* members read from the upstream's result, whatever they are.  A member
\* that reads as undefined is left out by JSON.
ForwardedResult(result) ==
    [status |-> 200,
     body |-> [m \in Members |->
                  IF m = "success" THEN JsonTrue ELSE result[m]]]

\* The prompt sent upstream when the request has none, route.ts:17-19.
DefaultPrompt == <<"Analyze this food image">>

Prompts == {<<>>, <<"vitamins?">>}

\* The result of the upstream of README.md, analyze_food_image.
FullResult ==
    [m \in Members |->
        CASE m = "success" -> JsonTrue
          [] m = "food_name" -> Str(FoodNames[1])
          [] m = "health_score" -> Num(88)
          [] m = "calories" -> Num(95)
          [] m = "analysis" -> Str(<<"## Nutritional Analysis: ">> \o FoodNames[1])
          [] m = "nutritional_info" -> Obj(<<"protein: 12g">>)
          [] m = "health_benefits" -> Obj(<<"Rich in vitamins">>)
          [] m = "recommendations" -> Obj(<<"Eat fresh">>)]

\* The same members with values of another type.
OtherResult ==
    [m \in Members |->
        CASE m = "health_score" -> Str(<<"88">>)
          [] m = "calories" -> Str(<<"95">>)
          [] m = "food_name" -> Num(7)
          [] OTHER -> JsonNull]

\* The objects an upstream can answer with: each of the four members of
\* the result shape as the upstream of README.md sets it, of another type,
\* or missing; the three others all there or all missing.
UpstreamResults ==
    {[m \in Members |->
        IF m \in {"food_name", "health_score", "calories", "analysis"}
        THEN (CASE shape[m] = "full" -> FullResult[m]
                [] shape[m] = "other" -> OtherResult[m]
                [] OTHER -> Undefined)
        ELSE IF rest THEN FullResult[m] ELSE Undefined] :
        shape \in [{"food_name", "health_score", "calories", "analysis"}
                      -> {"full", "other", "missing"}],
        rest \in BOOLEAN}

\* The catch block answers, route.ts:39-73.
AnswerFallback(outcome, status) ==
    \E r1 \in Randoms, r2 \in Randoms, r3 \in Randoms :
        /\ apc' = "answered"
        /\ aup' = [aup EXCEPT !.outcome = outcome, !.status = status]
        /\ aresp' = Fallback(r1, r2, r3)
        /\ UNCHANGED notAnalyze

\* request.json() or the destructuring of its value throws, route.ts:5.
AnalyzeBadRequest ==
    /\ apc = "idle"
    /\ AnswerFallback("badrequest", 0)

\* The request is read and the upstream called, route.ts:5-21.
AnalyzeFetch(image, prompt) ==
    /\ apc = "idle"
    /\ apc' = "fetching"
    /\ aup' = [aup EXCEPT !.image_data = image,
                          !.prompt = IF prompt # <<>> THEN prompt
                                     ELSE DefaultPrompt]
    /\ UNCHANGED <<aresp, notAnalyze>>

\* fetch rejects: the upstream is unreachable, route.ts:10.
UpstreamUnreachable ==
    /\ apc = "fetching"
    /\ AnswerFallback("unreachable", 0)

\* The upstream answers with a status that is not 2xx, route.ts:23-25.
UpstreamNotOk(status) ==
    /\ apc = "fetching"
    /\ AnswerFallback("status", status)

\* The upstream answers 200 with a body that is not JSON:
\* response.json() rejects, route.ts:27.
UpstreamNotJson ==
    /\ apc = "fetching"
    /\ AnswerFallback("notjson", 200)

\* The upstream answers 200 with the body null: reading result.food_name
\* throws, route.ts:31.
UpstreamNull ==
    /\ apc = "fetching"
    /\ AnswerFallback("null", 200)

\* The upstream answers 200 with an object (or a number, a text or an
\* array, of which the seven members read as undefined), route.ts:27-38.
UpstreamResult(result) ==
    /\ apc = "fetching"
    /\ apc' = "answered"
    /\ aup' = [aup EXCEPT !.outcome = "result", !.status = 200,
                          !.result = result]
    /\ aresp' = ForwardedResult(result)
    /\ UNCHANGED notAnalyze

NextAnalyze ==
    \/ AnalyzeBadRequest
    \/ \E image \in Images, prompt \in Prompts : AnalyzeFetch(image, prompt)
    \/ UpstreamUnreachable
    \/ \E status \in {400, 500} : UpstreamNotOk(status)
    \/ UpstreamNotJson
    \/ UpstreamNull
    \/ \E result \in UpstreamResults : UpstreamResult(result)

SpecAnalyze == Init /\ [][NextAnalyze]_vars

\* ---------------------------------------------------------------- C19

\* b has the shape of a result: a food label, a numeric health score, a
\* calorie estimate and a free-text analysis.
Structured(b) ==
    /\ b["food_name"].type = "string"
    /\ b["health_score"].type = "number"
    /\ b["calories"].type = "number"
    /\ b["analysis"].type = "string"

\* C19: every response of the analysis route is a result with a food label,
\* a numeric health score, a calorie estimate and a free-text analysis, and
\* never an error; when the upstream is unreachable or answers with a
\* status that is not a success, it has success = true, health_score in
\* 60..99 and calories in 100..299.  (Stated as claimed; the success path
\* answers with the members the upstream's body has.)
C19_StructuredResult ==
    apc = "answered" =>
        /\ aresp.status = 200
        /\ Structured(aresp.body)
        /\ aup.outcome \in {"unreachable", "status"} =>
              /\ aresp.body["success"] = JsonTrue
              /\ aresp.body["health_score"].num \in 60..99
              /\ aresp.body["calories"].num \in 100..299

\* ---------------------------------------------------------------- C21

\* C21: the history that the dialog sends to /api/chat for a send has, as
\* its last element, the user message whose sending started the exchange.
\* (Stated as claimed; sent is the body of the request handleAPIResponse
\* makes, and the step is the accepted sendMessage that appends the user
\* message.)
C21_LastIsUserMessage ==
    [][(showLLMChat /\ ~isLoading /\ isLoading')
          => /\ sent'.messages # <<>>
             /\ Last(sent'.messages) = Last(messages')
             /\ Last(sent'.messages).role = "user"]_vars

\* ---------------------------------------------------------------- C22

\* The messages after the last message of the user.
AfterLastUser(ms) ==
    LET us == SelectSeq([i \in 1..Len(ms) |-> i], LAMBDA i : ms[i].role = "user")
    IN  IF us = <<>> THEN <<>> ELSE SubSeq(ms, Last(us) + 1, Len(ms))

\* C22: when the exchange that an accepted sendMessage started is over,
\* exactly one assistant message has been appended after the user message,
\* whatever stream the relay delivered and however it was divided.
\* (Stated as claimed.)
C22_OneAnswerPerSend ==
    (showLLMChat /\ cpc = "idle" /\ UserCount(messages) > 0) =>
        /\ Len(AfterLastUser(messages)) = 1
        /\ Last(messages).role = "assistant"

\* ---------------------------------------------------------------- C23

\* The idle state of the dialog.
ClientIdle == ~isLoading /\ ~isStreaming /\ streamingMessage = <<>>

\* C23: when the handlers of an accepted sendMessage have run to their end
\* (the stream has ended, with or without the sentinel, or has failed) the
\* dialog is in its idle state: isLoading = false, isStreaming = false and
\* streamingMessage = "".  No handler runs after that, so a state that is
\* not idle then is never left.  (Stated as claimed.)
C23_ReturnsToIdle ==
    (showLLMChat /\ cpc = "idle") => ClientIdle

\* ---------------------------------------------------------------- C24

\* The number of requests to /api/chat that have been made and whose
\* stream has neither been read to its end nor failed.
InFlight ==
    (IF cpc \in {"fetching", "reading"} THEN 1 ELSE 0) + orphans.fetching

\* C24: at most one request to /api/chat is in flight at any time; an
\* exchange starts only with an input that is not blank and with isLoading
\* false, and isLoading is true from the accepted send until the stream
\* has been read to its end or has failed.  (Stated as claimed; a dialog
\* closed during an exchange leaves its request in flight.)
C24_OneRequestInFlight ==
    /\ [](InFlight <= 1)
    /\ [](cpc # "idle" => isLoading)
    /\ [][UserCount(messages') > UserCount(messages)
            => (~isLoading /\ Trim(input) # <<>>)]_vars

\* ====================================================== the thinking box
\* src/components/thinking-box.tsx

\* The effect of ThinkingBox takes its second branch: the first needs a
\* thinkingContent that is not empty and a currentIndex below its length
\* (isVisible is true while the box is mounted).
EffectCompletes(content, shown, complete) ==
    /\ ~(content # 0 /\ shown < content)
    /\ shown >= content /\ ~complete

\* The effect after a render with this thinkingContent and currentIndex:
\* setIsComplete(true) and the timeout that will call onComplete.
RunEffect(content, shown) ==
    IF EffectCompletes(content, shown, isComplete)
    THEN /\ isComplete' = TRUE
         /\ completing' = completing + 1
    ELSE UNCHANGED <<isComplete, completing>>

\* The parent starts: setShowThinking(true), setThinkingContent("") and the
\* first round of its loop, which sets the empty text again; the box is
\* mounted and its effect runs.
ParentStart ==
    /\ tpc = "idle"
    /\ ~showThinking
    /\ completing = 0
    /\ tpc' = "typing"
    /\ showThinking' = TRUE
    /\ thinkingContent' = 0
    /\ currentIndex' = 0
    /\ isExpanded' = TRUE
    /\ calls' = 0
    /\ isComplete' = EffectCompletes(0, 0, FALSE)
    /\ completing' = IF EffectCompletes(0, 0, FALSE) THEN 1 ELSE 0
    /\ UNCHANGED notThinking

\* The next round of the loop of the parent: one more character; the
\* effect of a mounted box runs with the new thinkingContent.
ParentType ==
    /\ tpc = "typing"
    /\ thinkingContent < MaxText
    /\ thinkingContent' = thinkingContent + 1
    /\ IF showThinking
       THEN RunEffect(thinkingContent + 1, currentIndex)
       ELSE UNCHANGED <<isComplete, completing>>
    /\ UNCHANGED <<tpc, showThinking, currentIndex, isExpanded, calls>>
    /\ UNCHANGED notThinking

\* The loop of the parent has set the whole text and ends.
ParentTyped ==
    /\ tpc = "typing"
    /\ thinkingContent = MaxText
    /\ tpc' = "waiting"
    /\ UNCHANGED <<showThinking, thinkingContent, currentIndex, isComplete,
                   isExpanded, completing, calls>>
    /\ UNCHANGED notThinking

\* The timeout of the parent: setShowThinking(false); the box is unmounted.
ParentHide ==
    /\ tpc = "waiting"
    /\ tpc' = "idle"
    /\ showThinking' = FALSE
    /\ UNCHANGED <<thinkingContent, currentIndex, isComplete, isExpanded,
                   completing, calls>>
    /\ UNCHANGED notThinking

\* The typing timer of the box fires: one more character is displayed, and
\* the effect runs with the new currentIndex.
BoxTick ==
    /\ showThinking
    /\ thinkingContent # 0 /\ currentIndex < thinkingContent
    /\ currentIndex' = currentIndex + 1
    /\ RunEffect(thinkingContent, currentIndex + 1)
    /\ UNCHANGED <<tpc, showThinking, thinkingContent, isExpanded, calls>>
    /\ UNCHANGED notThinking

\* The timeout set by the effect fires: onComplete, which is
\* setShowThinking(false) in both parents.
BoxTimeout ==
    /\ completing > 0
    /\ completing' = completing - 1
    /\ calls' = calls + 1
    /\ showThinking' = FALSE
    /\ UNCHANGED <<tpc, thinkingContent, currentIndex, isComplete,
                   isExpanded>>
    /\ UNCHANGED notThinking

\* The button in the header of the box: setIsExpanded(!isExpanded).
ToggleExpanded ==
    /\ showThinking
    /\ isExpanded' = ~isExpanded
    /\ UNCHANGED <<tpc, showThinking, thinkingContent, currentIndex,
                   isComplete, completing, calls>>
    /\ UNCHANGED notThinking

NextThinking ==
    \/ ParentStart
    \/ ParentType
    \/ ParentTyped
    \/ ParentHide
    \/ BoxTick
    \/ BoxTimeout
    \/ ToggleExpanded

SpecThinking == Init /\ [][NextThinking]_vars

\* ---------------------------------------------------------------- C25

\* The ids of the entries of h are pairwise different.
DistinctIds(h) ==
    \A i \in 1..Len(h) : \A j \in 1..Len(h) : i # j => h[i] # h[j]

\* C25: every handleScan that runs with an image selected adds exactly one
\* entry to scanHistory, at its head, when the analysis answers and when it
\* fails, and nothing else changes scanHistory; isScanning is false again
\* once the scan is over; the ids of the entries are pairwise different;
\* a handleScan without an image starts no scan.
C25_OneEntryPerScan ==
    /\ [][(spc = "analyzing" /\ spc' # "analyzing")
            => /\ scanHistory' # <<>>
               /\ Tail(scanHistory') = scanHistory]_vars
    /\ [][scanHistory' # scanHistory
            => (spc = "analyzing" /\ spc' = "finishing")]_vars
    /\ [][(~isScanning /\ isScanning')
            => (ImageToAnalyze(scanArgs') # 0 /\ ~showCamera')]_vars
    /\ [](spc = "idle" => ~isScanning)
    /\ [](DistinctIds(scanHistory))

\* Two scans are over, the first answered and the second failed.
C25_Witness ==
    /\ spc = "idle"
    /\ ~isScanning
    /\ Len(scanHistory) = Len(InitialHistory) + 2
    /\ analysisResult = Len(InitialHistory) + 1

\* ---------------------------------------------------------------- C26

\* C26: when the camera dialog is gone, after its close button or a
\* confirmed capture, no media stream that startCamera obtained is live.
\* (Stated as claimed; the cleanup holds the stream of the first render,
\* which is null.)
C26_NoLiveStreamAfterClose ==
    ~showCamera => liveStreams = 0

\* ---------------------------------------------------------------- C28

\* The image the page shows: the one supplied last, while at most one of
\* capturedImage and uploadedImage is set.
Selected ==
    ImageToAnalyze([capturedImage |-> capturedImage,
                    uploadedImage |-> uploadedImage])

\* At most one of capturedImage and uploadedImage is not null.
OneImage == capturedImage = 0 \/ uploadedImage = 0

\* C28 as claimed: at most one of capturedImage and uploadedImage is not
\* null, and the image that handleScan sends for analysis is the one
\* supplied last when it is sent.
C28_SendsLatestImage ==
    /\ [](OneImage)
    /\ [][(spc = "typing" /\ spc' = "analyzing")
            => ImageToAnalyze(scanArgs) = Selected]_vars

\* C28, amended: at most one of capturedImage and uploadedImage is not
\* null, a capture clears the uploaded image and an upload the captured
\* one, and the image that handleScan sends for analysis is the one that
\* was supplied last when handleScan was called.
C28_SendsImageOfCall ==
    /\ [](OneImage)
    /\ [][capturedImage' # capturedImage
            => IF capturedImage' # 0 THEN uploadedImage' = 0
               ELSE uploadedImage' # 0]_vars
    /\ [][uploadedImage' # uploadedImage
            => IF uploadedImage' # 0 THEN capturedImage' = 0
               ELSE capturedImage' # 0]_vars
    /\ [][(~isScanning /\ isScanning')
            => (ImageToAnalyze(scanArgs') = Selected /\ Selected # 0)]_vars
    /\ [](spc \in {"typing", "analyzing"} => ImageToAnalyze(scanArgs) # 0)

\* A scan of a captured image has sent its request after an upload has
\* replaced the image.
C28_Witness ==
    /\ spc = "analyzing"
    /\ scanArgs.capturedImage # 0
    /\ uploadedImage # 0
    /\ capturedImage = 0

\* ---------------------------------------------------------------- C29

\* C29: in the gallery dialog, when no file read is pending, selectedImage
\* is the data of the image file selected last, or null when
\* resetSelection came last; a file that is not an image is never read and
\* never selected; onUpload is called only with a selectedImage that is not
\* null.  (Stated as claimed; the reads finish in any order.)
C29_SelectedIsLatest ==
    /\ []((showGallery /\ reading = {}) => selectedImage = latest)
    /\ [](selectedImage \notin OtherFiles /\ reading \cap OtherFiles = {})
    /\ [][(showGallery /\ ~showGallery' /\ uploadedImage' # uploadedImage)
            => (uploadedImage' # 0 /\ uploadedImage' = selectedImage)]_vars

\* ---------------------------------------------------------------- C27

\* C27: a mounted ThinkingBox calls onComplete at most once, and only when
\* it has displayed the whole text of its parent: not while the parent is
\* still typing the text.  (Stated as claimed; the box is mounted with the
\* empty text, for which its effect completes at once.)
C27_CompleteAfterWholeText ==
    /\ [](calls <= 1)
    /\ [][calls' > calls
            => (tpc # "typing" /\ currentIndex = MaxText)]_vars

====
